---- MODULE Spec2Model ----
(***************************************************************************)
(* rich-prompt: the discovery-and-selection engine.                        *)
(*                                                                         *)
(*   Spec        the interactive file selector (core/file_selector.rs):    *)
(*               App::new builds the tree, run_app handles one key per     *)
(*               step, run_tui turns run_app's result into the caller's.   *)
(*   SpecIgnore  should_ignore_by_gitignore and matches_gitignore_pattern  *)
(*               (infra/file_system.rs) applied to bounded inputs, the     *)
(*               HashSet being iterated in an arbitrary order.             *)
(*   SpecMatch   matches_gitignore_pattern alone, applied to one path, one *)
(*               pattern and one is_dir flag per behaviour.                *)
(*   SpecLoad    parse_gitignore on a bounded ignore file, then one call   *)
(*               of should_ignore_by_gitignore with the set it returned.   *)
(*   SpecContext run / generate_context (cli/commands.rs): the discovery   *)
(*               walk and the file-map walk (infra/file_system.rs) over a  *)
(*               fixed file system, one iterator item per step, then       *)
(*               select_files, build_context_output and write_output, for  *)
(*               the configurations a command line gives. A write to the   *)
(*               standard output can fail wherever the code writes: the    *)
(*               error is returned (ScanProgress) or the program panics    *)
(*               (unwrap, println!).                                       *)
(*   SpecGenerate  the steps of generate_context called with any           *)
(*               ContextConfig (apply_dot_git_ignore true or false).       *)
(*                                                                         *)
(* A path is the sequence of its components (Path::components); a pattern  *)
(* and a root-relative path string are TLA+ strings.                       *)
(***************************************************************************)
EXTENDS Integers, Sequences, FiniteSets, TLC

VARIABLES
    files,           \* run_tui: the file list handed to App::new
    tree,            \* App.tree
    flattened_tree,  \* App.flattened_tree: [nodes, state]
    result,          \* what run_tui has returned, or Browsing while run_app loops
    lastKey,         \* history: the key handled by the last step
    treeChanged,     \* history: whether the last step changed App.tree
    rules,           \* should_ignore_by_gitignore: gitignore_patterns
    relPath,         \* should_ignore_by_gitignore: path_str (root-relative)
    isDir,           \* should_ignore_by_gitignore: is_dir
    order,           \* the order in which the HashSet was iterated
    ignoreOut,       \* the call's locals and return value, or NotCalled
    mPath,           \* matches_gitignore_pattern: path
    mPattern,        \* matches_gitignore_pattern: pattern
    mIsDir,          \* matches_gitignore_pattern: is_dir
    mOut,            \* the value returned, or NotCalled
    config,          \* generate_context: the ContextConfig
    dotGitignore,    \* the lines of <root>/.gitignore, or NoFile
    readDirOrder,    \* for each directory, the order in which read_dir lists it
    pc,              \* where generate_context is
    walk,            \* the items the running walk has still to yield
    available_files, \* list_code_files*: result
    discovered,      \* what list_code_files* returned, or Running
    dir_map,         \* list_dir_structure_with_gitignore: dir_map
    selection,       \* the call of select_files: reader, run_tui's result, result
    selected_files,  \* generate_context: selected_files
    outcome,         \* what generate_context and run returned, the panic that
                     \* ended them, or Running
    walkLog          \* history: errors dropped and entries yielded by the
                     \* discovery walk, whether the file map is complete

vars == <<files, tree, flattened_tree, result, lastKey, treeChanged,
          rules, relPath, isDir, order, ignoreOut,
          mPath, mPattern, mIsDir, mOut,
          config, dotGitignore, readDirOrder, pc, walk, available_files,
          discovered, dir_map, selection, selected_files, outcome, walkLog>>

tuiVars == <<files, tree, flattened_tree, result, lastKey, treeChanged>>
ignoreVars == <<rules, relPath, isDir, order, ignoreOut>>
matchVars == <<mPath, mPattern, mIsDir, mOut>>
contextVars == <<config, dotGitignore, readDirOrder, pc, walk, available_files,
                 discovered, dir_map, selection, selected_files, outcome, walkLog>>

(***************************************************************************)
(* Bounds                                                                  *)
(***************************************************************************)
MaxFiles == 2
MaxRules == 2

\* the paths a file list is drawn from: a top-level file, a file of a
\* directory, two directories that share the name "u", and a directory "u"
\* nested in a directory "u"
PathPool ==
    { <<"x.txt">>, <<"a", "b.txt">>, <<"a", "u", "d.rs">>, <<"b", "u", "e.rs">>,
      <<"u", "u", "f.rs">> }

RECURSIVE SeqsUpTo(_, _)
SeqsUpTo(S, n) ==
    IF n = 0 THEN { <<>> }
    ELSE LET shorter == SeqsUpTo(S, n - 1)
         IN  shorter \cup { Append(s, x) : s \in shorter, x \in S }

\* select_files returns before run_tui when the list is empty
FileLists == SeqsUpTo(PathPool, MaxFiles) \ { <<>> }

Range(s) == { s[i] : i \in DOMAIN s }

(***************************************************************************)
(* TreeNode                                                                *)
(***************************************************************************)
new_directory(name) ==
    [kind |-> "Directory", name |-> name, children |-> <<>>, expanded |-> TRUE]

new_file(name, path) ==
    [kind |-> "File", name |-> name, path |-> path, selected |-> FALSE]

is_file(node) == node.kind = "File"

is_selected(node) == IF node.kind = "File" THEN node.selected ELSE FALSE

is_expanded(node) == IF node.kind = "Directory" THEN node.expanded ELSE FALSE

\* toggle_selected that only ever sets the flag
TreeNode_toggle_selected_set_only(node) ==
    IF node.kind = "File" THEN [node EXCEPT !.selected = TRUE] ELSE node

TreeNode_toggle_selected(node) ==
    IF node.kind = "File" THEN [node EXCEPT !.selected = ~@] ELSE node

(***************************************************************************)
(* usize arithmetic                                                        *)
(***************************************************************************)
\* a - b on usize; a result below 0 marks the underflow (a panic in a debug
\* build, a wrap in a release build), which no usize value equals
usize_sub(a, b) == a - b

(***************************************************************************)
(* FlattenedTree                                                           *)
(***************************************************************************)
\* ListState::selected() of a fresh ListState
None == -1

\* flatten_node without the `if *expanded` test
RECURSIVE flatten_node_descend_always(_, _)
RECURSIVE flatten_children_descend_always(_, _, _)
flatten_children_descend_always(children, i, depth) ==
    IF i > Len(children) THEN <<>>
    ELSE flatten_node_descend_always(children[i], depth)
         \o flatten_children_descend_always(children, i + 1, depth)

flatten_node_descend_always(node, depth) ==
    IF node.kind = "Directory"
    THEN <<[node  |-> [kind |-> "Directory", name |-> node.name,
                       children |-> <<>>, expanded |-> node.expanded],
            depth |-> depth]>>
         \o flatten_children_descend_always(node.children, 1, depth + 1)
    ELSE <<[node  |-> [kind |-> "File", name |-> node.name,
                       path |-> node.path, selected |-> node.selected],
            depth |-> depth]>>

RECURSIVE flatten_node(_, _)
RECURSIVE flatten_children(_, _, _)
\* the entries pushed for children[i..], in order
flatten_children(children, i, depth) ==
    IF i > Len(children) THEN <<>>
    ELSE flatten_node(children[i], depth) \o flatten_children(children, i + 1, depth)

flatten_node(node, depth) ==
    IF node.kind = "Directory"
    THEN <<[node  |-> [kind |-> "Directory", name |-> node.name,
                       children |-> <<>>, expanded |-> node.expanded],
            depth |-> depth]>>
         \o (IF node.expanded
             THEN flatten_children(node.children, 1, depth + 1)
             ELSE <<>>)
    ELSE <<[node  |-> [kind |-> "File", name |-> node.name,
                       path |-> node.path, selected |-> node.selected],
            depth |-> depth]>>

from_tree(root) ==
    LET nodes == flatten_node(root, 0)
    IN  [nodes |-> nodes, state |-> IF nodes # <<>> THEN 0 ELSE None]

\* nodes is 1-based here, the index i is the code's 0-based index
NodeAt(ft, i) == ft.nodes[i + 1].node

FlattenedTree_next(ft) ==
    [ft EXCEPT !.state =
        IF ft.state # None
        THEN IF ft.state >= usize_sub(Len(ft.nodes), 1) THEN 0 ELSE ft.state + 1
        ELSE 0]

\* previous that stops at index 0 instead of wrapping to the last index
FlattenedTree_previous_clamped(ft) ==
    [ft EXCEPT !.state =
        IF ft.state # None
        THEN IF ft.state = 0 THEN 0 ELSE ft.state - 1
        ELSE 0]

FlattenedTree_previous(ft) ==
    [ft EXCEPT !.state =
        IF ft.state # None
        THEN IF ft.state = 0 THEN usize_sub(Len(ft.nodes), 1) ELSE ft.state - 1
        ELSE 0]

FlattenedTree_toggle_selected(ft) ==
    IF ft.state # None
    THEN IF is_file(NodeAt(ft, ft.state))
         THEN [ft EXCEPT !.nodes[ft.state + 1].node = TreeNode_toggle_selected(@)]
         ELSE ft
    ELSE ft

selected_files_count(ft) ==
    Cardinality({ i \in DOMAIN ft.nodes :
                    is_file(ft.nodes[i].node) /\ is_selected(ft.nodes[i].node) })

total_files_count(ft) ==
    Cardinality({ i \in DOMAIN ft.nodes : is_file(ft.nodes[i].node) })

RECURSIVE selected_paths_from(_, _)
selected_paths_from(nodes, i) ==
    IF i > Len(nodes) THEN <<>>
    ELSE (IF nodes[i].node.kind = "File" /\ nodes[i].node.selected
          THEN <<nodes[i].node.path>>
          ELSE <<>>)
         \o selected_paths_from(nodes, i + 1)

\* get_selected_paths without the `if *selected` test
get_selected_paths_every_file(ft) ==
    [k \in 1..Cardinality({ i \in DOMAIN ft.nodes : ft.nodes[i].node.kind = "File" }) |->
        ft.nodes[CHOOSE i \in DOMAIN ft.nodes :
                    /\ ft.nodes[i].node.kind = "File"
                    /\ Cardinality({ j \in 1..i : ft.nodes[j].node.kind = "File" }) = k
                ].node.path]

get_selected_paths(ft) == selected_paths_from(ft.nodes, 1)

\* select_all_files that stops after the first File entry
select_all_files_first_only(ft) ==
    [ft EXCEPT !.nodes =
        [i \in DOMAIN ft.nodes |->
            IF /\ ft.nodes[i].node.kind = "File"
               /\ \A j \in 1..(i - 1) : ft.nodes[j].node.kind # "File"
            THEN [ft.nodes[i] EXCEPT !.node.selected = TRUE]
            ELSE ft.nodes[i]]]

select_all_files(ft) ==
    [ft EXCEPT !.nodes =
        [i \in DOMAIN ft.nodes |->
            IF ft.nodes[i].node.kind = "File"
            THEN [ft.nodes[i] EXCEPT !.node.selected = TRUE]
            ELSE ft.nodes[i]]]

deselect_all_files(ft) ==
    [ft EXCEPT !.nodes =
        [i \in DOMAIN ft.nodes |->
            IF ft.nodes[i].node.kind = "File"
            THEN [ft.nodes[i] EXCEPT !.node.selected = FALSE]
            ELSE ft.nodes[i]]]

(***************************************************************************)
(* App                                                                     *)
(***************************************************************************)
\* a position() that never finds the Directory
dir_position_none(children, name, i) == 0

\* children.iter().position(is a Directory named name), 0 when there is none
RECURSIVE dir_position(_, _, _)
dir_position(children, name, i) ==
    IF i > Len(children) THEN 0
    ELSE IF children[i].kind = "Directory" /\ children[i].name = name THEN i
    ELSE dir_position(children, name, i + 1)

\* add_path_to_tree that pushes the File leaf only when no sibling File has
\* the same path
RECURSIVE add_components_dedup(_, _, _)
add_components_dedup(current, components, path) ==
    IF current.kind # "Directory" THEN current
    ELSE IF Len(components) = 1
    THEN IF \E k \in DOMAIN current.children :
                current.children[k].kind = "File" /\ current.children[k].path = path
         THEN current
         ELSE [current EXCEPT !.children = Append(@, new_file(components[1], path))]
    ELSE LET pos == dir_position(current.children, components[1], 1)
         IN  IF pos # 0
             THEN [current EXCEPT !.children[pos] =
                      add_components_dedup(@, Tail(components), path)]
             ELSE [current EXCEPT !.children =
                      Append(@, add_components_dedup(new_directory(components[1]),
                                                     Tail(components), path))]

\* the loop of add_path_to_tree from `current` on, over the components left
RECURSIVE add_components(_, _, _)
add_components(current, components, path) ==
    IF current.kind # "Directory" THEN current
    ELSE IF Len(components) = 1
    THEN [current EXCEPT !.children = Append(@, new_file(components[1], path))]
    ELSE LET pos == dir_position(current.children, components[1], 1)
         IN  IF pos # 0
             THEN [current EXCEPT !.children[pos] =
                      add_components(@, Tail(components), path)]
             ELSE [current EXCEPT !.children =
                      Append(@, add_components(new_directory(components[1]),
                                               Tail(components), path))]

add_path_to_tree(root, path) ==
    IF path = <<>> THEN root ELSE add_components(root, path, path)

RECURSIVE add_paths(_, _, _)
add_paths(root, fs, i) ==
    IF i > Len(fs) THEN root
    ELSE add_paths(add_path_to_tree(root, fs[i]), fs, i + 1)

App_new(fs) ==
    LET root == add_paths(new_directory(""), fs, 1)
    IN  [tree |-> root, flattened_tree |-> from_tree(root)]

\* find_and_collapse / find_and_expand: [node, found] with the first Directory
\* named `name` (pre-order, `node` included) given expanded = value
RECURSIVE find_and_set(_, _, _)
RECURSIVE find_in_children(_, _, _, _)
\* the `for child in children` loop from child i on: stops at the first hit
find_in_children(children, i, name, value) ==
    IF i > Len(children) THEN [children |-> children, found |-> FALSE]
    ELSE LET r == find_and_set(children[i], name, value)
         IN  IF r.found
             THEN [children |-> [children EXCEPT ![i] = r.node], found |-> TRUE]
             ELSE find_in_children(children, i + 1, name, value)

find_and_set(node, name, value) ==
    IF node.kind = "Directory"
    THEN IF node.name = name
         THEN [node |-> [node EXCEPT !.expanded = value], found |-> TRUE]
         ELSE LET r == find_in_children(node.children, 1, name, value)
              IN  [node |-> [node EXCEPT !.children = r.children], found |-> r.found]
    ELSE [node |-> node, found |-> FALSE]

\* the search starts at the children of the root, never at the root itself
set_directory_by_name(root, dir_name, value) ==
    IF root.kind = "Directory"
    THEN LET r == find_in_children(root.children, 1, dir_name, value)
         IN  [tree |-> [root EXCEPT !.children = r.children], modified |-> r.found]
    ELSE [tree |-> root, modified |-> FALSE]

\* expand_directory_by_name writing `*expanded = false`
expand_directory_by_name_clearing(root, dir_name) ==
    set_directory_by_name(root, dir_name, FALSE)

collapse_directory_by_name(root, dir_name) ==
    set_directory_by_name(root, dir_name, FALSE)

expand_directory_by_name(root, dir_name) ==
    set_directory_by_name(root, dir_name, TRUE)

\* index (0-based) of the first Directory entry named dir_name, None if absent
RECURSIVE first_dir_entry(_, _, _)
first_dir_entry(nodes, dir_name, i) ==
    IF i > Len(nodes) THEN None
    ELSE IF nodes[i].node.kind = "Directory" /\ nodes[i].node.name = dir_name
    THEN i - 1
    ELSE first_dir_entry(nodes, dir_name, i + 1)

\* the new flattened_tree, given the current tree and the old flattened_tree
update_flattened_tree(root, ft) ==
    LET path_to_selected ==
            IF ft.state # None /\ ft.state < Len(ft.nodes)
               /\ NodeAt(ft, ft.state).kind = "Directory"
            THEN <<NodeAt(ft, ft.state).name>>
            ELSE <<>>
        fresh == from_tree(root)
    IN  IF path_to_selected # <<>> /\ fresh.nodes # <<>>
        THEN LET hit == first_dir_entry(fresh.nodes, path_to_selected[1], 1)
             IN  IF hit # None THEN [fresh EXCEPT !.state = hit] ELSE fresh
        ELSE fresh

App_select_all(ft) == select_all_files(ft)

App_deselect_all(ft) == deselect_all_files(ft)

(***************************************************************************)
(* str methods used by the matcher (a string is a sequence of characters)  *)
(***************************************************************************)
starts_with(s, p) == Len(p) <= Len(s) /\ SubSeq(s, 1, Len(p)) = p

ends_with(s, p) == Len(p) <= Len(s) /\ SubSeq(s, Len(s) - Len(p) + 1, Len(s)) = p

contains(s, p) ==
    \E i \in 1..(Len(s) + 1) :
        i + Len(p) - 1 <= Len(s) /\ SubSeq(s, i, i + Len(p) - 1) = p

RECURSIVE trim_start_matches(_, _)
trim_start_matches(s, c) ==
    IF starts_with(s, c) THEN trim_start_matches(SubSeq(s, 2, Len(s)), c) ELSE s

RECURSIVE trim_end_matches(_, _)
trim_end_matches(s, c) ==
    IF ends_with(s, c) THEN trim_end_matches(SubSeq(s, 1, Len(s) - 1), c) ELSE s

trim_matches(s, c) == trim_end_matches(trim_start_matches(s, c), c)

\* s.split(c): the pieces between the occurrences of the character c
RECURSIVE split_from(_, _, _, _)
split_from(s, c, i, piece) ==
    IF i > Len(s) THEN <<piece>>
    ELSE IF SubSeq(s, i, i) = c
    THEN <<piece>> \o split_from(s, c, i + 1, "")
    ELSE split_from(s, c, i + 1, piece \o SubSeq(s, i, i))

split(s, c) == split_from(s, c, 1, "")

(***************************************************************************)
(* The gitignore matcher                                                   *)
(***************************************************************************)
\* the matcher without the `pattern.ends_with('/') && !is_dir` test
matches_gitignore_pattern_any_kind(path, pattern, is_dir) ==
    IF FALSE THEN FALSE
    ELSE
    LET clean_pattern == trim_end_matches(pattern, "/")
        has_star == contains(clean_pattern, "*")
    IN  IF ~has_star
           /\ (\/ path = clean_pattern
               \/ starts_with(path, clean_pattern \o "/")
               \/ ends_with(path, "/" \o clean_pattern))
        THEN TRUE
        ELSE IF has_star /\ starts_with(clean_pattern, "*") /\ ends_with(clean_pattern, "*")
        THEN contains(path, trim_matches(clean_pattern, "*"))
        ELSE IF has_star /\ starts_with(clean_pattern, "*")
        THEN ends_with(path, trim_start_matches(clean_pattern, "*"))
        ELSE IF has_star /\ ends_with(clean_pattern, "*")
        THEN starts_with(path, trim_end_matches(clean_pattern, "*"))
        ELSE IF has_star /\ Len(split(clean_pattern, "*")) >= 2
        THEN LET parts == split(clean_pattern, "*")
             IN  /\ starts_with(path, parts[1])
                 /\ ends_with(path, parts[Len(parts)])
                 /\ \A k \in 2..(Len(parts) - 1) : contains(path, parts[k])
        ELSE IF starts_with(clean_pattern, "/")
        THEN LET pattern_without_slash == trim_start_matches(clean_pattern, "/")
             IN  \/ path = pattern_without_slash
                 \/ starts_with(path, pattern_without_slash \o "/")
        ELSE contains(path, clean_pattern)

\* the matcher whose leading-wildcard shape removes one '*' only
matches_gitignore_pattern_one_star(path, pattern, is_dir) ==
    IF ends_with(pattern, "/") /\ ~is_dir THEN FALSE
    ELSE
    LET clean_pattern == trim_end_matches(pattern, "/")
        has_star == contains(clean_pattern, "*")
    IN  IF ~has_star
           /\ (\/ path = clean_pattern
               \/ starts_with(path, clean_pattern \o "/")
               \/ ends_with(path, "/" \o clean_pattern))
        THEN TRUE
        ELSE IF has_star /\ starts_with(clean_pattern, "*") /\ ends_with(clean_pattern, "*")
        THEN contains(path, trim_matches(clean_pattern, "*"))
        ELSE IF has_star /\ starts_with(clean_pattern, "*")
        THEN ends_with(path, SubSeq(clean_pattern, 2, Len(clean_pattern)))
        ELSE IF has_star /\ ends_with(clean_pattern, "*")
        THEN starts_with(path, trim_end_matches(clean_pattern, "*"))
        ELSE IF has_star /\ Len(split(clean_pattern, "*")) >= 2
        THEN LET parts == split(clean_pattern, "*")
             IN  /\ starts_with(path, parts[1])
                 /\ ends_with(path, parts[Len(parts)])
                 /\ \A k \in 2..(Len(parts) - 1) : contains(path, parts[k])
        ELSE IF starts_with(clean_pattern, "/")
        THEN LET pattern_without_slash == trim_start_matches(clean_pattern, "/")
             IN  \/ path = pattern_without_slash
                 \/ starts_with(path, pattern_without_slash \o "/")
        ELSE contains(path, clean_pattern)

\* the matcher without the `clean_pattern.starts_with('/')` block
matches_gitignore_pattern_unanchored(path, pattern, is_dir) ==
    IF ends_with(pattern, "/") /\ ~is_dir THEN FALSE
    ELSE
    LET clean_pattern == trim_end_matches(pattern, "/")
        has_star == contains(clean_pattern, "*")
    IN  IF ~has_star
           /\ (\/ path = clean_pattern
               \/ starts_with(path, clean_pattern \o "/")
               \/ ends_with(path, "/" \o clean_pattern))
        THEN TRUE
        ELSE IF has_star /\ starts_with(clean_pattern, "*") /\ ends_with(clean_pattern, "*")
        THEN contains(path, trim_matches(clean_pattern, "*"))
        ELSE IF has_star /\ starts_with(clean_pattern, "*")
        THEN ends_with(path, trim_start_matches(clean_pattern, "*"))
        ELSE IF has_star /\ ends_with(clean_pattern, "*")
        THEN starts_with(path, trim_end_matches(clean_pattern, "*"))
        ELSE IF has_star /\ Len(split(clean_pattern, "*")) >= 2
        THEN LET parts == split(clean_pattern, "*")
             IN  /\ starts_with(path, parts[1])
                 /\ ends_with(path, parts[Len(parts)])
                 /\ \A k \in 2..(Len(parts) - 1) : contains(path, parts[k])
        ELSE IF FALSE
        THEN LET pattern_without_slash == trim_start_matches(clean_pattern, "/")
             IN  \/ path = pattern_without_slash
                 \/ starts_with(path, pattern_without_slash \o "/")
        ELSE contains(path, clean_pattern)

\* the matcher without the final `path.contains(clean_pattern)`
matches_gitignore_pattern_no_fallback(path, pattern, is_dir) ==
    IF ends_with(pattern, "/") /\ ~is_dir THEN FALSE
    ELSE
    LET clean_pattern == trim_end_matches(pattern, "/")
        has_star == contains(clean_pattern, "*")
    IN  IF ~has_star
           /\ (\/ path = clean_pattern
               \/ starts_with(path, clean_pattern \o "/")
               \/ ends_with(path, "/" \o clean_pattern))
        THEN TRUE
        ELSE IF has_star /\ starts_with(clean_pattern, "*") /\ ends_with(clean_pattern, "*")
        THEN contains(path, trim_matches(clean_pattern, "*"))
        ELSE IF has_star /\ starts_with(clean_pattern, "*")
        THEN ends_with(path, trim_start_matches(clean_pattern, "*"))
        ELSE IF has_star /\ ends_with(clean_pattern, "*")
        THEN starts_with(path, trim_end_matches(clean_pattern, "*"))
        ELSE IF has_star /\ Len(split(clean_pattern, "*")) >= 2
        THEN LET parts == split(clean_pattern, "*")
             IN  /\ starts_with(path, parts[1])
                 /\ ends_with(path, parts[Len(parts)])
                 /\ \A k \in 2..(Len(parts) - 1) : contains(path, parts[k])
        ELSE IF starts_with(clean_pattern, "/")
        THEN LET pattern_without_slash == trim_start_matches(clean_pattern, "/")
             IN  \/ path = pattern_without_slash
                 \/ starts_with(path, pattern_without_slash \o "/")
        ELSE FALSE

\* the matcher whose wildcard shapes return only when they match, a failed
\* shape going on to the root-anchored and substring tests
matches_gitignore_pattern_falls_through(path, pattern, is_dir) ==
    IF ends_with(pattern, "/") /\ ~is_dir THEN FALSE
    ELSE
    LET clean_pattern == trim_end_matches(pattern, "/")
        has_star == contains(clean_pattern, "*")
        parts == split(clean_pattern, "*")
        shape ==
            IF starts_with(clean_pattern, "*") /\ ends_with(clean_pattern, "*")
            THEN contains(path, trim_matches(clean_pattern, "*"))
            ELSE IF starts_with(clean_pattern, "*")
            THEN ends_with(path, trim_start_matches(clean_pattern, "*"))
            ELSE IF ends_with(clean_pattern, "*")
            THEN starts_with(path, trim_end_matches(clean_pattern, "*"))
            ELSE /\ starts_with(path, parts[1])
                 /\ ends_with(path, parts[Len(parts)])
                 /\ \A k \in 2..(Len(parts) - 1) : contains(path, parts[k])
    IN  IF ~has_star
           /\ (\/ path = clean_pattern
               \/ starts_with(path, clean_pattern \o "/")
               \/ ends_with(path, "/" \o clean_pattern))
        THEN TRUE
        ELSE IF has_star /\ shape
        THEN TRUE
        ELSE IF starts_with(clean_pattern, "/")
        THEN LET pattern_without_slash == trim_start_matches(clean_pattern, "/")
             IN  \/ path = pattern_without_slash
                 \/ starts_with(path, pattern_without_slash \o "/")
        ELSE contains(path, clean_pattern)

\* the matcher whose interior shape tests the first and the last part only
matches_gitignore_pattern_no_fragments(path, pattern, is_dir) ==
    IF ends_with(pattern, "/") /\ ~is_dir THEN FALSE
    ELSE
    LET clean_pattern == trim_end_matches(pattern, "/")
        has_star == contains(clean_pattern, "*")
    IN  IF ~has_star
           /\ (\/ path = clean_pattern
               \/ starts_with(path, clean_pattern \o "/")
               \/ ends_with(path, "/" \o clean_pattern))
        THEN TRUE
        ELSE IF has_star /\ starts_with(clean_pattern, "*") /\ ends_with(clean_pattern, "*")
        THEN contains(path, trim_matches(clean_pattern, "*"))
        ELSE IF has_star /\ starts_with(clean_pattern, "*")
        THEN ends_with(path, trim_start_matches(clean_pattern, "*"))
        ELSE IF has_star /\ ends_with(clean_pattern, "*")
        THEN starts_with(path, trim_end_matches(clean_pattern, "*"))
        ELSE IF has_star /\ Len(split(clean_pattern, "*")) >= 2
        THEN LET parts == split(clean_pattern, "*")
             IN  /\ starts_with(path, parts[1])
                 /\ ends_with(path, parts[Len(parts)])
        ELSE IF starts_with(clean_pattern, "/")
        THEN LET pattern_without_slash == trim_start_matches(clean_pattern, "/")
             IN  \/ path = pattern_without_slash
                 \/ starts_with(path, pattern_without_slash \o "/")
        ELSE contains(path, clean_pattern)

matches_gitignore_pattern(path, pattern, is_dir) ==
    IF ends_with(pattern, "/") /\ ~is_dir THEN FALSE
    ELSE
    LET clean_pattern == trim_end_matches(pattern, "/")
        has_star == contains(clean_pattern, "*")
    IN  IF ~has_star
           /\ (\/ path = clean_pattern
               \/ starts_with(path, clean_pattern \o "/")
               \/ ends_with(path, "/" \o clean_pattern))
        THEN TRUE
        ELSE IF has_star /\ starts_with(clean_pattern, "*") /\ ends_with(clean_pattern, "*")
        THEN contains(path, trim_matches(clean_pattern, "*"))
        ELSE IF has_star /\ starts_with(clean_pattern, "*")
        THEN ends_with(path, trim_start_matches(clean_pattern, "*"))
        ELSE IF has_star /\ ends_with(clean_pattern, "*")
        THEN starts_with(path, trim_end_matches(clean_pattern, "*"))
        ELSE IF has_star /\ Len(split(clean_pattern, "*")) >= 2
        THEN LET parts == split(clean_pattern, "*")
             IN  /\ starts_with(path, parts[1])
                 /\ ends_with(path, parts[Len(parts)])
                 /\ \A k \in 2..(Len(parts) - 1) : contains(path, parts[k])
        ELSE IF starts_with(clean_pattern, "/")
        THEN LET pattern_without_slash == trim_start_matches(clean_pattern, "/")
             IN  \/ path = pattern_without_slash
                 \/ starts_with(path, pattern_without_slash \o "/")
        ELSE contains(path, clean_pattern)

\* ignore_loop with the '!' of a negated rule left in the text it matches
RECURSIVE ignore_loop_bang_kept(_, _, _, _, _)
ignore_loop_bang_kept(path_str, ord, i, is_dir, loc) ==
    IF i > Len(ord) THEN loc
    ELSE LET pattern == ord[i]
             is_negated == starts_with(pattern, "!")
         IN  IF is_negated
             THEN ignore_loop_bang_kept(path_str, ord, i + 1, is_dir,
                     IF matches_gitignore_pattern(path_str, pattern, is_dir)
                     THEN [loc EXCEPT !.matched_negated = TRUE]
                     ELSE loc)
             ELSE ignore_loop_bang_kept(path_str, ord, i + 1, is_dir,
                     IF ~loc.matched_negated
                        /\ matches_gitignore_pattern(path_str, pattern, is_dir)
                     THEN [loc EXCEPT !.should_ignore = TRUE]
                     ELSE loc)

\* the body of `for pattern in gitignore_patterns`, the set being visited in
\* the order `ord`, from position i on; loc holds the two locals
RECURSIVE ignore_loop(_, _, _, _, _)
ignore_loop(path_str, ord, i, is_dir, loc) ==
    IF i > Len(ord) THEN loc
    ELSE LET pattern == ord[i]
             is_negated == starts_with(pattern, "!")
         IN  IF is_negated
             THEN LET negated_pattern == SubSeq(pattern, 2, Len(pattern))
                  IN  ignore_loop(path_str, ord, i + 1, is_dir,
                         IF matches_gitignore_pattern(path_str, negated_pattern, is_dir)
                         THEN [loc EXCEPT !.matched_negated = TRUE]
                         ELSE loc)
             ELSE ignore_loop(path_str, ord, i + 1, is_dir,
                     IF ~loc.matched_negated
                        /\ matches_gitignore_pattern(path_str, pattern, is_dir)
                     THEN [loc EXCEPT !.should_ignore = TRUE]
                     ELSE loc)

\* should_ignore_by_gitignore without the final `if matched_negated` return
should_ignore_by_gitignore_flag_only(path_str, ord, is_dir) ==
    IF ord = <<>>
    THEN [state |-> "Returned", matched_negated |-> FALSE,
          should_ignore |-> FALSE, value |-> FALSE]
    ELSE LET loc == ignore_loop(path_str, ord, 1, is_dir,
                        [matched_negated |-> FALSE, should_ignore |-> FALSE])
         IN  [state |-> "Returned", matched_negated |-> loc.matched_negated,
              should_ignore |-> loc.should_ignore,
              value |-> loc.should_ignore]

\* the locals at the end of the loop and the value returned
should_ignore_by_gitignore(path_str, ord, is_dir) ==
    IF ord = <<>>
    THEN [state |-> "Returned", matched_negated |-> FALSE,
          should_ignore |-> FALSE, value |-> FALSE]
    ELSE LET loc == ignore_loop(path_str, ord, 1, is_dir,
                        [matched_negated |-> FALSE, should_ignore |-> FALSE])
         IN  [state |-> "Returned", matched_negated |-> loc.matched_negated,
              should_ignore |-> loc.should_ignore,
              value |-> IF loc.matched_negated THEN FALSE ELSE loc.should_ignore]

\* the orders in which a HashSet holding the elements of S can be iterated
Orders(S) ==
    { o \in [1..Cardinality(S) -> S] : \A i, j \in DOMAIN o : o[i] = o[j] => i = j }

\* the lines of the ignore file the rule sets are drawn from
RulePool ==
    { "*.log", "!important.log", "build", "/dist", "node_modules/", "temp*",
      "!logs/*", "!" }

\* root-relative paths the walk hands to the filter
RelPathPool ==
    { "logs/important.log", "logs/other.log", "important.log", "build/index.js",
      "dist/main.js", "src/dist/main.js", "node_modules", "temporary.txt",
      "src/index.js" }

RuleSets == { S \in SUBSET RulePool : Cardinality(S) <= MaxRules }

\* no call of should_ignore_by_gitignore is under way
IgnoreIdle ==
    /\ rules = {}
    /\ relPath = ""
    /\ isDir = FALSE
    /\ order = <<>>
    /\ ignoreOut = [state |-> "NotCalled"]

\* generate_context is not running
ContextIdle ==
    /\ config = [root_path |-> ""]
    /\ dotGitignore = [exists |-> FALSE, lines |-> <<>>, fault |-> ""]
    /\ readDirOrder = "forward"
    /\ pc = "idle"
    /\ walk = <<>>
    /\ available_files = <<>>
    /\ discovered = [state |-> "Running"]
    /\ dir_map = <<>>
    /\ selection = [state |-> "NotCalled"]
    /\ selected_files = <<>>
    /\ outcome = [state |-> "Running"]
    /\ walkLog = [errors |-> 0]

\* no call of matches_gitignore_pattern is under way
MatchIdle ==
    /\ mPath = ""
    /\ mPattern = ""
    /\ mIsDir = FALSE
    /\ mOut = [state |-> "NotCalled"]

(***************************************************************************)
(* run_app / run_tui                                                       *)
(***************************************************************************)
Browsing == [state |-> "Browsing"]

\* the errors a terminal call (crossterm, ratatui) can return
IoErrors == { "No such device or address (os error 6)" }

\* run_tui on run_app's Ok(()); run_app records what run_app returned
run_tui_ok(ft) ==
    [state |-> "Ok", paths |-> get_selected_paths(ft), run_app |-> "Ok"]

\* run_tui on run_app's Err(err)
run_tui_err(err) ==
    [state |-> "Err", msg |-> "Selection cancelled: " \o err, run_app |-> err]

\* run_tui leaving through the `?` of a terminal call that failed with e:
\* before run_app is called (enable_raw_mode, execute!, Terminal::new) or
\* after it has returned (disable_raw_mode, execute!, show_cursor)
run_tui_io(e, run_app_returned) ==
    [state |-> "Err", msg |-> e, run_app |-> run_app_returned]

\* what run_tui can return once run_app has returned: r when the terminal is
\* restored, the error of the restoring call otherwise
run_tui_returns(r) == { r } \cup { run_tui_io(e, r.run_app) : e \in IoErrors }

\* the Right / Left arm restoring the old index without the
\* `idx < nodes.len()` test
expand_or_collapse_index_unchecked(root, ft, value) ==
    LET dir_name ==
            IF ft.state # None /\ ~is_file(NodeAt(ft, ft.state))
            THEN <<NodeAt(ft, ft.state).name>>
            ELSE <<>>
    IN  IF dir_name = <<>> THEN [tree |-> root, flattened_tree |-> ft]
        ELSE LET r == IF value
                      THEN expand_directory_by_name(root, dir_name[1])
                      ELSE collapse_directory_by_name(root, dir_name[1])
             IN  IF ~r.modified THEN [tree |-> root, flattened_tree |-> ft]
                 ELSE [tree |-> r.tree,
                       flattened_tree |->
                          [update_flattened_tree(r.tree, ft) EXCEPT !.state = ft.state]]

\* KeyCode::Right / KeyCode::Left after the name under the cursor is taken:
\* the by-name mutation, update_flattened_tree, then the index restore
expand_or_collapse(root, ft, value) ==
    LET dir_name ==
            IF ft.state # None /\ ~is_file(NodeAt(ft, ft.state))
            THEN <<NodeAt(ft, ft.state).name>>
            ELSE <<>>
    IN  IF dir_name = <<>> THEN [tree |-> root, flattened_tree |-> ft]
        ELSE LET r == IF value
                      THEN expand_directory_by_name(root, dir_name[1])
                      ELSE collapse_directory_by_name(root, dir_name[1])
             IN  IF ~r.modified THEN [tree |-> root, flattened_tree |-> ft]
                 ELSE LET current_selection == ft.state
                          updated == update_flattened_tree(r.tree, ft)
                      IN  [tree |-> r.tree,
                           flattened_tree |->
                              IF current_selection # None
                              THEN IF current_selection < Len(updated.nodes)
                                   THEN [updated EXCEPT !.state = current_selection]
                                   ELSE IF updated.nodes # <<>>
                                   THEN [updated EXCEPT !.state = 0]
                                   ELSE updated
                              ELSE updated]

\* run_tui up to the first iteration of run_app: the terminal is set up and
\* App::new has built the tree, or a set-up call failed and run_tui has
\* returned its error without building anything
Init ==
    /\ files \in FileLists
    /\ \/ /\ tree = App_new(files).tree
          /\ flattened_tree = App_new(files).flattened_tree
          /\ result = Browsing
       \/ /\ tree = new_directory("")
          /\ flattened_tree = from_tree(new_directory(""))
          /\ result \in { run_tui_io(e, "not called") : e \in IoErrors }
    /\ lastKey = "none"
    /\ treeChanged = FALSE
    /\ IgnoreIdle
    /\ MatchIdle
    /\ ContextIdle

\* 'q' reporting the explicit abort when nothing is selected
KeyQuit_reports_cancel ==
    /\ result = Browsing
    /\ result' \in run_tui_returns(IF selected_files_count(flattened_tree) > 0
                                    THEN run_tui_ok(flattened_tree)
                                    ELSE run_tui_err("Selection cancelled"))
    /\ lastKey' = "q"
    /\ treeChanged' = FALSE
    /\ UNCHANGED <<files, tree, flattened_tree>>
    /\ UNCHANGED ignoreVars
    /\ UNCHANGED matchVars
    /\ UNCHANGED contextVars

\* KeyCode::Char('q') | KeyCode::Esc
KeyQuit ==
    /\ result = Browsing
    /\ result' \in run_tui_returns(IF selected_files_count(flattened_tree) > 0
                                    THEN run_tui_ok(flattened_tree)
                                    ELSE run_tui_err("No files selected"))
    /\ lastKey' = "q"
    /\ treeChanged' = FALSE
    /\ UNCHANGED <<files, tree, flattened_tree>>
    /\ UNCHANGED ignoreVars
    /\ UNCHANGED matchVars
    /\ UNCHANGED contextVars

\* Ctrl+C handled like 'q'
KeyCtrlC_like_quit ==
    /\ result = Browsing
    /\ result' \in run_tui_returns(IF selected_files_count(flattened_tree) > 0
                                    THEN run_tui_ok(flattened_tree)
                                    ELSE run_tui_err("Selection cancelled"))
    /\ lastKey' = "Ctrl+c"
    /\ treeChanged' = FALSE
    /\ UNCHANGED <<files, tree, flattened_tree>>
    /\ UNCHANGED ignoreVars
    /\ UNCHANGED matchVars
    /\ UNCHANGED contextVars

\* KeyCode::Char('c') with KeyModifiers::CONTROL
KeyCtrlC ==
    /\ result = Browsing
    /\ result' \in run_tui_returns(run_tui_err("Selection cancelled"))
    /\ lastKey' = "Ctrl+c"
    /\ treeChanged' = FALSE
    /\ UNCHANGED <<files, tree, flattened_tree>>
    /\ UNCHANGED ignoreVars
    /\ UNCHANGED matchVars
    /\ UNCHANGED contextVars

\* KeyCode::Char('a')
KeySelectAll ==
    /\ result = Browsing
    /\ flattened_tree' = App_select_all(flattened_tree)
    /\ lastKey' = "a"
    /\ treeChanged' = FALSE
    /\ UNCHANGED <<files, tree, result>>
    /\ UNCHANGED ignoreVars
    /\ UNCHANGED matchVars
    /\ UNCHANGED contextVars

\* KeyCode::Char('n')
KeyDeselectAll ==
    /\ result = Browsing
    /\ flattened_tree' = App_deselect_all(flattened_tree)
    /\ lastKey' = "n"
    /\ treeChanged' = FALSE
    /\ UNCHANGED <<files, tree, result>>
    /\ UNCHANGED ignoreVars
    /\ UNCHANGED matchVars
    /\ UNCHANGED contextVars

\* KeyCode::Char(' ')
KeySpace ==
    /\ result = Browsing
    /\ flattened_tree' = FlattenedTree_toggle_selected(flattened_tree)
    /\ lastKey' = "Space"
    /\ treeChanged' = FALSE
    /\ UNCHANGED <<files, tree, result>>
    /\ UNCHANGED ignoreVars
    /\ UNCHANGED matchVars
    /\ UNCHANGED contextVars

\* KeyCode::Right
KeyRight ==
    /\ result = Browsing
    /\ LET r == expand_or_collapse(tree, flattened_tree, TRUE)
       IN  /\ tree' = r.tree
           /\ flattened_tree' = r.flattened_tree
    /\ lastKey' = "Right"
    /\ treeChanged' = (tree' # tree)
    /\ UNCHANGED <<files, result>>
    /\ UNCHANGED ignoreVars
    /\ UNCHANGED matchVars
    /\ UNCHANGED contextVars

\* KeyCode::Left
KeyLeft ==
    /\ result = Browsing
    /\ LET r == expand_or_collapse(tree, flattened_tree, FALSE)
       IN  /\ tree' = r.tree
           /\ flattened_tree' = r.flattened_tree
    /\ lastKey' = "Left"
    /\ treeChanged' = (tree' # tree)
    /\ UNCHANGED <<files, result>>
    /\ UNCHANGED ignoreVars
    /\ UNCHANGED matchVars
    /\ UNCHANGED contextVars

\* KeyCode::Down
KeyDown ==
    /\ result = Browsing
    /\ flattened_tree' = FlattenedTree_next(flattened_tree)
    /\ lastKey' = "Down"
    /\ treeChanged' = FALSE
    /\ UNCHANGED <<files, tree, result>>
    /\ UNCHANGED ignoreVars
    /\ UNCHANGED matchVars
    /\ UNCHANGED contextVars

\* KeyCode::Up
KeyUp ==
    /\ result = Browsing
    /\ flattened_tree' = FlattenedTree_previous(flattened_tree)
    /\ lastKey' = "Up"
    /\ treeChanged' = FALSE
    /\ UNCHANGED <<files, tree, result>>
    /\ UNCHANGED ignoreVars
    /\ UNCHANGED matchVars
    /\ UNCHANGED contextVars

\* Enter without the selected_files_count() > 0 test
KeyEnter_unguarded ==
    /\ result = Browsing
    /\ result' \in run_tui_returns(run_tui_ok(flattened_tree))
    /\ lastKey' = "Enter"
    /\ treeChanged' = FALSE
    /\ UNCHANGED <<files, tree, flattened_tree>>
    /\ UNCHANGED ignoreVars
    /\ UNCHANGED matchVars
    /\ UNCHANGED contextVars

\* KeyCode::Enter
KeyEnter ==
    /\ result = Browsing
    /\ IF selected_files_count(flattened_tree) > 0
       THEN result' \in run_tui_returns(run_tui_ok(flattened_tree))
       ELSE result' = Browsing
    /\ lastKey' = "Enter"
    /\ treeChanged' = FALSE
    /\ UNCHANGED <<files, tree, flattened_tree>>
    /\ UNCHANGED ignoreVars
    /\ UNCHANGED matchVars
    /\ UNCHANGED contextVars

\* terminal.draw, event::poll or event::read fails: run_app returns the error
TerminalFails ==
    /\ result = Browsing
    /\ \E e \in IoErrors : result' \in run_tui_returns(run_tui_err(e))
    /\ lastKey' = "io error"
    /\ treeChanged' = FALSE
    /\ UNCHANGED <<files, tree, flattened_tree>>
    /\ UNCHANGED ignoreVars
    /\ UNCHANGED matchVars
    /\ UNCHANGED contextVars

Next ==
    \/ TerminalFails
    \/ KeyQuit
    \/ KeyCtrlC
    \/ KeySelectAll
    \/ KeyDeselectAll
    \/ KeySpace
    \/ KeyRight
    \/ KeyLeft
    \/ KeyDown
    \/ KeyUp
    \/ KeyEnter

Spec == Init /\ [][Next]_vars

(***************************************************************************)
(* Claims about the selector (checked under Spec)                          *)
(***************************************************************************)
\* the positions of the flattened entries that are selected File nodes
SelectedIndices(ft) ==
    { i \in DOMAIN ft.nodes :
        ft.nodes[i].node.kind = "File" /\ ft.nodes[i].node.selected }

\* r lists the paths of the selected File entries of ft, in flattened order
IsSelectedPathsOf(r, ft) ==
    /\ Len(r) = Cardinality(SelectedIndices(ft))
    /\ \A i \in SelectedIndices(ft) :
          r[Cardinality({ j \in SelectedIndices(ft) : j <= i })] = ft.nodes[i].node.path

\* how many selected File entries of ft carry the path p
SelectedWithPath(ft, p) ==
    Cardinality({ i \in SelectedIndices(ft) : ft.nodes[i].node.path = p })

\* C3: Confirm or Quit with a file selected ends the session as Confirmed with
\* exactly the paths of the selected File entries in flattened order; a
\* Confirmed result is never empty and holds only paths given to build.
\* (Confirmed is run_app returning Ok; the list reaches the caller unless a
\* call restoring the terminal fails, whose error is returned instead.)
C3_ConfirmReturnsSelection ==
    /\ [][ ((KeyEnter \/ KeyQuit) /\ SelectedIndices(flattened_tree) # {})
              => /\ result'.run_app = "Ok"
                 /\ \/ /\ result'.state = "Ok"
                       /\ IsSelectedPathsOf(result'.paths, flattened_tree)
                    \/ /\ result'.state = "Err"
                       /\ result'.msg \in IoErrors ]_vars
    /\ [](result.state = "Ok"
             => /\ result.paths # <<>>
                /\ \A k \in DOMAIN result.paths : result.paths[k] \in Range(files))

\* confirmed by Enter with one file selected and another one left out
C3_Witness ==
    /\ lastKey = "Enter"
    /\ result.state = "Ok"
    /\ Len(result.paths) = 1
    /\ \E i \in DOMAIN flattened_tree.nodes :
          /\ flattened_tree.nodes[i].node.kind = "File"
          /\ ~flattened_tree.nodes[i].node.selected

\* C4: Confirm with no file selected changes nothing: the controller stays in
\* Browsing and tree, flattened sequence, cursor and flags are as before.
C4_ConfirmEmptyIsNoOp ==
    [][ (KeyEnter /\ SelectedIndices(flattened_tree) = {})
           => /\ result' = Browsing
              /\ UNCHANGED <<files, tree, flattened_tree>> ]_vars

\* Enter was pressed with nothing selected, after a directory was collapsed
\* and the cursor was moved
C4_Witness ==
    /\ lastKey = "Enter"
    /\ result = Browsing
    /\ SelectedIndices(flattened_tree) = {}
    /\ flattened_tree.state > 0
    /\ \E i \in DOMAIN flattened_tree.nodes :
          /\ flattened_tree.nodes[i].node.kind = "Directory"
          /\ ~flattened_tree.nodes[i].node.expanded

\* C5: Quit with no file selected ends the session as an error to the caller
\* whose reason is "No files selected", carrying no paths, and that differs
\* from the error of the explicit Cancel. (The caller gets run_tui's
\* "Selection cancelled: No files selected", or the error of a call that
\* failed to restore the terminal.)
C5_QuitEmptyCancels ==
    [][ (KeyQuit /\ SelectedIndices(flattened_tree) = {})
           => /\ result'.run_app = "No files selected"
              /\ result'.state = "Err"
              /\ DOMAIN result' = {"state", "msg", "run_app"}
              /\ result'.msg \in {"Selection cancelled: No files selected"} \cup IoErrors
              /\ result' \notin run_tui_returns(run_tui_err("Selection cancelled")) ]_vars

\* 'q' was pressed with nothing selected
C5_Witness ==
    /\ lastKey = "q"
    /\ result.state = "Err"
    /\ result.msg = "Selection cancelled: No files selected"
    /\ SelectedIndices(flattened_tree) = {}

\* C6: Cancel ends the session as the error "Selection cancelled" whether or
\* not files are selected; no path is returned. (The caller gets run_tui's
\* "Selection cancelled: Selection cancelled", or the error of a call that
\* failed to restore the terminal.)
C6_CancelUnconditional ==
    [][ KeyCtrlC
           => /\ result'.run_app = "Selection cancelled"
              /\ result'.state = "Err"
              /\ DOMAIN result' = {"state", "msg", "run_app"}
              /\ result'.msg \in {"Selection cancelled: Selection cancelled"}
                                   \cup IoErrors ]_vars

\* Ctrl+C was pressed while files were selected
C6_Witness ==
    /\ lastKey = "Ctrl+c"
    /\ result.state = "Err"
    /\ result.msg = "Selection cancelled: Selection cancelled"
    /\ SelectedIndices(flattened_tree) # {}

\* C7: ExpandRight and CollapseLeft change no selected flag: every path is
\* selected (and would be returned by Confirm) as often after the key as
\* before it.
C7_ExpandCollapseKeepSelection ==
    [][ (KeyRight \/ KeyLeft)
           => \A p \in Range(files) :
                 SelectedWithPath(flattened_tree', p) = SelectedWithPath(flattened_tree, p) ]_vars

\* C8: SelectAll selects every File node of the tree, also beneath collapsed
\* directories, so that Confirm returns every path given to build;
\* DeselectAll clears every flag.
C8_SelectAllCoversTree ==
    [][ /\ KeySelectAll
           => \A p \in Range(files) : SelectedWithPath(flattened_tree', p) > 0
        /\ KeyDeselectAll
           => SelectedIndices(flattened_tree') = {} ]_vars

\* C9: right after select_all selected_count = total_file_count, right after
\* deselect_all selected_count = 0, and always 0 <= selected_count <=
\* total_file_count (both counts are taken over the flattened sequence).
C9_SelectionCountBounds ==
    /\ lastKey = "a"
          => selected_files_count(flattened_tree) = total_files_count(flattened_tree)
    /\ lastKey = "n" => selected_files_count(flattened_tree) = 0
    /\ 0 <= selected_files_count(flattened_tree)
    /\ selected_files_count(flattened_tree) <= total_files_count(flattened_tree)

\* select_all has just run over two or more File entries
C9_Witness ==
    /\ lastKey = "a"
    /\ result = Browsing
    /\ total_files_count(flattened_tree) >= 2
    /\ Cardinality(SelectedIndices(flattened_tree)) = total_files_count(flattened_tree)

\* C10: ToggleSelect flips the flag of the File entry under the cursor and
\* nothing else (no other flag, no expanded flag, not the cursor); on a
\* Directory it changes nothing; a second ToggleSelect restores the state.
C10_ToggleFlipsOnlyCursor ==
    [][ KeySpace
           => LET c == flattened_tree.state + 1
                  old == flattened_tree.nodes
                  new == flattened_tree'.nodes
              IN  /\ UNCHANGED <<files, tree, result>>
                  /\ flattened_tree'.state = flattened_tree.state
                  /\ DOMAIN new = DOMAIN old
                  /\ \A k \in DOMAIN old : k # c => new[k] = old[k]
                  /\ new[c].depth = old[c].depth
                  /\ old[c].node.kind = "Directory" => new[c] = old[c]
                  /\ old[c].node.kind = "File"
                        => /\ new[c].node.selected = ~old[c].node.selected
                           /\ new[c].node.kind = "File"
                           /\ new[c].node.name = old[c].node.name
                           /\ new[c].node.path = old[c].node.path
                  /\ FlattenedTree_toggle_selected(flattened_tree') = flattened_tree ]_vars

\* Space was pressed on a File entry that was selected before: it is cleared
\* while another entry stays selected
C10_Witness ==
    /\ lastKey = "Space"
    /\ flattened_tree.nodes[flattened_tree.state + 1].node.kind = "File"
    /\ ~flattened_tree.nodes[flattened_tree.state + 1].node.selected
    /\ SelectedIndices(flattened_tree) # {}

\* C11: over a flattened sequence of length n MoveDown maps the cursor i to
\* (i + 1) mod n and MoveUp maps it to (i - 1) mod n; neither changes the
\* tree, the flattened entries or any selected flag.
C11_CursorWraps ==
    [][ LET n == Len(flattened_tree.nodes)
            i == flattened_tree.state
        IN  /\ KeyDown => flattened_tree'.state = (i + 1) % n
            /\ KeyUp => flattened_tree'.state = (i - 1) % n
            /\ (KeyDown \/ KeyUp)
                  => /\ flattened_tree'.nodes = flattened_tree.nodes
                     /\ UNCHANGED <<files, tree, result>> ]_vars

\* MoveUp has just wrapped from index 0 to the last of three or more entries
C11_Witness ==
    /\ lastKey = "Up"
    /\ Len(flattened_tree.nodes) >= 3
    /\ flattened_tree.state = Len(flattened_tree.nodes) - 1

\* C12: in every reachable state the flattened sequence is non-empty and the
\* cursor is Some(i) with 0 <= i < its length.
C12_CursorValid ==
    /\ Len(flattened_tree.nodes) >= 1
    /\ flattened_tree.state # None
    /\ 0 <= flattened_tree.state
    /\ flattened_tree.state < Len(flattened_tree.nodes)

\* a collapse has shortened the sequence to two entries below the old cursor
\* index, which was reset to 0
C12_Witness ==
    /\ lastKey = "Left"
    /\ files = << <<"u", "u", "f.rs">> >>
    /\ Len(flattened_tree.nodes) = 2
    /\ flattened_tree.state = 0

\* the positions (child-index paths from the root) of the nodes of `node`
\* that lie under expanded directories only
RECURSIVE VisiblePositions(_)
VisiblePositions(node) ==
    { <<>> } \cup
    (IF node.kind = "Directory" /\ node.expanded
     THEN UNION { { <<i>> \o p : p \in VisiblePositions(node.children[i]) } :
                  i \in DOMAIN node.children }
     ELSE {})

RECURSIVE NodeAtPosition(_, _)
NodeAtPosition(node, pos) ==
    IF pos = <<>> THEN node
    ELSE NodeAtPosition(node.children[pos[1]], Tail(pos))

\* p comes before q in depth-first pre-order
PreOrderBefore(p, q) ==
    \/ Len(p) < Len(q) /\ SubSeq(q, 1, Len(p)) = p
    \/ \E k \in 1..Len(p) :
          /\ k <= Len(q)
          /\ SubSeq(p, 1, k - 1) = SubSeq(q, 1, k - 1)
          /\ p[k] < q[k]

\* the flattened entry e shows the tree node n (its selected flag aside)
ShowsNode(e, n) ==
    /\ e.kind = n.kind
    /\ e.name = n.name
    /\ e.kind = "Directory" => e.expanded = n.expanded /\ e.children = <<>>
    /\ e.kind = "File" => e.path = n.path

\* C13: the flattened sequence is the depth-first pre-order walk of the
\* current tree: the root at depth 0, each child one deeper than its parent
\* in child order, nothing below a collapsed Directory (also right after an
\* expand or a collapse).
C13_FlattenedIsPreOrderWalk ==
    result = Browsing =>
        LET pos == VisiblePositions(tree)
        IN  /\ Len(flattened_tree.nodes) = Cardinality(pos)
            /\ \A p \in pos :
                  LET k == Cardinality({ q \in pos : PreOrderBefore(q, p) }) + 1
                  IN  /\ flattened_tree.nodes[k].depth = Len(p)
                      /\ ShowsNode(flattened_tree.nodes[k].node, NodeAtPosition(tree, p))

\* a collapse has just hidden the children of a directory while a second
\* directory stays expanded
C13_Witness ==
    /\ lastKey = "Left"
    /\ result = Browsing
    /\ \E i, j \in DOMAIN flattened_tree.nodes :
          /\ flattened_tree.nodes[i].node.kind = "Directory"
          /\ ~flattened_tree.nodes[i].node.expanded
          /\ flattened_tree.nodes[j].node.kind = "Directory"
          /\ flattened_tree.nodes[j].node.expanded
          /\ flattened_tree.nodes[j].depth = 1

\* the positions of all nodes of `node`, also those below collapsed directories
RECURSIVE AllPositions(_)
AllPositions(node) ==
    { <<>> } \cup
    (IF node.kind = "Directory"
     THEN UNION { { <<i>> \o p : p \in AllPositions(node.children[i]) } :
                  i \in DOMAIN node.children }
     ELSE {})

\* `node` with the expanded flag of the Directory at pos set to value
RECURSIVE SetExpandedAt(_, _, _)
SetExpandedAt(node, pos, value) ==
    IF pos = <<>> THEN [node EXCEPT !.expanded = value]
    ELSE [node EXCEPT !.children[pos[1]] = SetExpandedAt(@, Tail(pos), value)]

\* the index (1-based) of the flattened entry for the visible position p
EntryOf(root, p) ==
    Cardinality({ q \in VisiblePositions(root) : PreOrderBefore(q, p) }) + 1

\* the position in the tree of the node the cursor is on
CursorPosition ==
    CHOOSE p \in VisiblePositions(tree) : EntryOf(tree, p) = flattened_tree.state + 1

CursorNode == flattened_tree.nodes[flattened_tree.state + 1].node

IsProperPrefix(p, q) == Len(p) < Len(q) /\ SubSeq(q, 1, Len(p)) = p

\* C14: ExpandRight with the cursor on a collapsed Directory D sets D's
\* expanded flag, so that D's children follow D directly in the flattened
\* sequence, and changes the expanded flag of no other Directory.
C14_ExpandSetsCursorDirectory ==
    [][ (KeyRight /\ CursorNode.kind = "Directory" /\ ~CursorNode.expanded)
           => LET p == CursorPosition
                  D == NodeAtPosition(tree, p)
                  k == EntryOf(tree', p)
              IN  /\ tree' = SetExpandedAt(tree, p, TRUE)
                  /\ \A i \in DOMAIN D.children :
                        /\ p \o <<i>> \in VisiblePositions(tree')
                        /\ ShowsNode(flattened_tree'.nodes[EntryOf(tree', p \o <<i>>)].node,
                                     D.children[i])
                  /\ D.children # <<>>
                        => /\ ShowsNode(flattened_tree'.nodes[k + 1].node, D.children[1])
                           /\ flattened_tree'.nodes[k + 1].depth = Len(p) + 1 ]_vars

\* Right has just expanded a directory that was collapsed
C14_Witness ==
    /\ lastKey = "Right"
    /\ treeChanged
    /\ CursorNode.kind = "Directory"
    /\ CursorNode.expanded

\* C15: CollapseLeft with the cursor on an expanded Directory D (the root and
\* a Directory whose name occurs elsewhere included) clears D's expanded
\* flag, so that no descendant of D stays in the flattened sequence, and
\* changes the expanded flag of no other Directory.
C15_CollapseClearsCursorDirectory ==
    [][ (KeyLeft /\ CursorNode.kind = "Directory" /\ CursorNode.expanded)
           => LET p == CursorPosition
              IN  /\ tree' = SetExpandedAt(tree, p, FALSE)
                  /\ \A q \in VisiblePositions(tree') : ~IsProperPrefix(p, q)
                  /\ Len(flattened_tree'.nodes) = Cardinality(VisiblePositions(tree')) ]_vars

\* the Directory positions of root whose name is n, the root itself included
DirsNamed(root, n) ==
    { p \in AllPositions(root) :
        /\ NodeAtPosition(root, p).kind = "Directory"
        /\ NodeAtPosition(root, p).name = n }

\* the by-name call with argument n and flag value v does what is asked of
\* it, the first match being looked for in the whole tree
ByNameContract(n, v) ==
    LET r == IF v THEN expand_directory_by_name(tree, n)
                  ELSE collapse_directory_by_name(tree, n)
        hits == DirsNamed(tree, n)
    IN  IF hits # {}
        THEN LET first == CHOOSE p \in hits :
                             \A q \in hits : q = p \/ PreOrderBefore(p, q)
             IN  r.modified /\ r.tree = SetExpandedAt(tree, first, v)
        ELSE ~r.modified /\ r.tree = tree

\* the names handed to the by-name calls: every name of the pool's
\* directories, the root's empty name and a name no directory has
NamePool == { "", "a", "b", "u", "zz" }

\* C16: expand_by_name(n) / collapse_by_name(n) set the expanded flag of the
\* first Directory named n in pre-order over the whole tree, collapsed
\* directories included, and nothing else, returning true iff there is one.
C16_ByNameFirstInWholeTree ==
    \A n \in NamePool : \A v \in BOOLEAN : ByNameContract(n, v)

\* the flattened entries that are a Directory named n
DirEntriesNamed(ft, n) ==
    { i \in DOMAIN ft.nodes :
        ft.nodes[i].node.kind = "Directory" /\ ft.nodes[i].node.name = n }

\* C17: after an ExpandRight or CollapseLeft that changes the tree, the cursor
\* is on a Directory entry with the name of the Directory it was on before
\* whenever the flattened sequence still has such an entry, and on index 0
\* otherwise.
C17_CursorRestoredByName ==
    [][ ((KeyRight \/ KeyLeft) /\ tree' # tree)
           => LET n == CursorNode.name
              IN  IF DirEntriesNamed(flattened_tree', n) # {}
                  THEN flattened_tree'.state + 1 \in DirEntriesNamed(flattened_tree', n)
                  ELSE flattened_tree'.state = 0 ]_vars

\* the names on the way from the root to the node at position p
NamePathOf(root, p) ==
    [k \in 1..Len(p) |-> NodeAtPosition(root, SubSeq(p, 1, k)).name]

\* the directory prefixes of the paths fs
DirPrefixes(fs) ==
    UNION { { SubSeq(fs[i], 1, k) : k \in 1..(Len(fs[i]) - 1) } : i \in DOMAIN fs }

\* how often the path f occurs in fs
Multiplicity(fs, f) == Cardinality({ i \in DOMAIN fs : fs[i] = f })

DirsBelowRoot(root) ==
    { p \in AllPositions(root) : p # <<>> /\ NodeAtPosition(root, p).kind = "Directory" }

FilePositions(root) ==
    { p \in AllPositions(root) : NodeAtPosition(root, p).kind = "File" }

ParentOf(p) == SubSeq(p, 1, Len(p) - 1)

\* the index in fs of the path whose insertion pushed the node at position p:
\* for a Directory the first path it is a prefix of, for the r-th sibling
\* File with one path the r-th occurrence of that path
CreatedAt(root, fs, p) ==
    LET n == NodeAtPosition(root, p)
    IN  IF n.kind = "Directory"
        THEN CHOOSE i \in DOMAIN fs :
                /\ IsProperPrefix(NamePathOf(root, p), fs[i])
                /\ \A j \in 1..(i - 1) : ~IsProperPrefix(NamePathOf(root, p), fs[j])
        ELSE LET r == Cardinality({ c \in 1..p[Len(p)] :
                         LET s == NodeAtPosition(root, ParentOf(p) \o <<c>>)
                         IN  s.kind = "File" /\ s.path = n.path })
             IN  CHOOSE i \in DOMAIN fs :
                    /\ fs[i] = n.path
                    /\ Cardinality({ j \in 1..i : fs[j] = n.path }) = r

AllExpandedUnselected(root) ==
    \A p \in AllPositions(root) :
        LET n == NodeAtPosition(root, p)
        IN  IF n.kind = "Directory" THEN n.expanded ELSE ~n.selected

\* what App::new builds from fs, as the claim describes it
BuildContract(root, fs) ==
    /\ root.kind = "Directory"
    /\ root.name = ""
    /\ { NamePathOf(root, p) : p \in DirsBelowRoot(root) } = DirPrefixes(fs)
    /\ Cardinality(DirsBelowRoot(root)) = Cardinality(DirPrefixes(fs))
    /\ Cardinality(FilePositions(root)) = Len(fs)
    /\ \A p \in FilePositions(root) :
          /\ NodeAtPosition(root, p).path \in Range(fs)
          /\ NamePathOf(root, p) = NodeAtPosition(root, p).path
    /\ \A f \in Range(fs) :
          Cardinality({ p \in FilePositions(root) : NodeAtPosition(root, p).path = f })
             = Multiplicity(fs, f)
    /\ \A p \in AllPositions(root) \ { <<>> } : \A c \in 1..(p[Len(p)] - 1) :
          CreatedAt(root, fs, ParentOf(p) \o <<c>>) < CreatedAt(root, fs, p)

\* App::new has been called: no set-up call of run_tui failed
AppBuilt == result = Browsing \/ result.run_app # "not called"

\* C18: build(paths) creates, below one root Directory named "", one Directory
\* per distinct directory prefix of the paths and one File leaf per path under
\* the Directory of its parent prefix, children in first-insertion order,
\* every Directory expanded and every File unselected; the paths a/b.txt and
\* a/c.txt give one Directory a with the File children b.txt and c.txt.
C18_BuildShape ==
    /\ AppBuilt => BuildContract(tree, files)
    /\ (AppBuilt /\ lastKey = "none")
          => /\ tree = App_new(files).tree
             /\ AllExpandedUnselected(tree)
    /\ App_new(<< <<"a", "b.txt">>, <<"a", "c.txt">> >>).tree =
          [kind |-> "Directory", name |-> "", expanded |-> TRUE,
           children |-> <<
              [kind |-> "Directory", name |-> "a", expanded |-> TRUE,
               children |-> <<
                  [kind |-> "File", name |-> "b.txt",
                   path |-> <<"a", "b.txt">>, selected |-> FALSE],
                  [kind |-> "File", name |-> "c.txt",
                   path |-> <<"a", "c.txt">>, selected |-> FALSE] >>] >>]

\* built from two paths that share the directory a: a is there once, with a
\* File and a Directory child
C18_Witness ==
    /\ AppBuilt
    /\ lastKey = "none"
    /\ files = << <<"a", "b.txt">>, <<"a", "u", "d.rs">> >>
    /\ Len(tree.children) = 1
    /\ Len(tree.children[1].children) = 2
    /\ tree.children[1].children[2].kind = "Directory"

\* how often the path f occurs in the sequence of paths r
Occurrences(r, f) == Cardinality({ k \in DOMAIN r : r[k] = f })

\* C19: build does not deduplicate: a path occurring k times in the input
\* gives k sibling File nodes of one name and path, total_file_count() is the
\* length of the input and, all of them selected, the result has the path k
\* times.
C19_NoDeduplication ==
    AppBuilt =>
    /\ \A f \in Range(files) :
          LET ps == { p \in FilePositions(tree) : NodeAtPosition(tree, p).path = f }
          IN  /\ Cardinality(ps) = Multiplicity(files, f)
              /\ \A p, q \in ps :
                    /\ ParentOf(p) = ParentOf(q)
                    /\ NodeAtPosition(tree, p).name = NodeAtPosition(tree, q).name
    /\ lastKey = "none" => total_files_count(flattened_tree) = Len(files)
    /\ (lastKey = "a" /\ AllExpandedUnselected(tree))
          => \A f \in Range(files) :
                Occurrences(get_selected_paths(flattened_tree), f) = Multiplicity(files, f)

\* one path given twice and both leaves selected by 'a'
C19_Witness ==
    /\ lastKey = "a"
    /\ \E f \in Range(files) : Multiplicity(files, f) = 2
    /\ Len(get_selected_paths(flattened_tree)) = 2
    /\ get_selected_paths(flattened_tree)[1] = get_selected_paths(flattened_tree)[2]

\* C20: in the tree build makes from any list of paths, and in every state
\* reached from it, the children of one Directory have pairwise distinct
\* names.
C20_SiblingNamesUnique ==
    \A p \in AllPositions(tree) :
        LET n == NodeAtPosition(tree, p)
        IN  n.kind = "Directory"
               => \A i, j \in DOMAIN n.children :
                     i # j => n.children[i].name # n.children[j].name

\* C32: ExpandRight with the cursor on a File or on an expanded Directory,
\* and CollapseLeft with the cursor on a File or on a collapsed Directory,
\* change nothing: no expanded flag, not the flattened sequence, not the
\* cursor, no selected flag.
C32_NoOpWhenNothingToDo ==
    [][ (\/ /\ KeyRight
            /\ (CursorNode.kind = "File" \/ CursorNode.expanded)
         \/ /\ KeyLeft
            /\ (CursorNode.kind = "File" \/ ~CursorNode.expanded))
           => UNCHANGED <<tree, flattened_tree>> ]_vars

(***************************************************************************)
(* SpecIgnore: one call of should_ignore_by_gitignore per behaviour        *)
(***************************************************************************)
\* no selector session is under way
TuiIdle ==
    /\ files = <<>>
    /\ tree = new_directory("")
    /\ flattened_tree = from_tree(new_directory(""))
    /\ result = Browsing
    /\ lastKey = "none"
    /\ treeChanged = FALSE

InitIgnore ==
    /\ rules \in RuleSets
    /\ relPath \in RelPathPool
    /\ isDir \in BOOLEAN
    /\ order = <<>>
    /\ ignoreOut = [state |-> "NotCalled"]
    /\ TuiIdle
    /\ MatchIdle
    /\ ContextIdle

CallShouldIgnore ==
    /\ ignoreOut.state = "NotCalled"
    /\ \E o \in Orders(rules) :
          /\ order' = o
          /\ ignoreOut' = should_ignore_by_gitignore(relPath, o, isDir)
    /\ UNCHANGED <<rules, relPath, isDir>>
    /\ UNCHANGED tuiVars
    /\ UNCHANGED matchVars
    /\ UNCHANGED contextVars

NextIgnore == CallShouldIgnore

SpecIgnore == InitIgnore /\ [][NextIgnore]_vars

(***************************************************************************)
(* Claims about the ignore decision (checked under SpecIgnore)             *)
(***************************************************************************)
NegatedRuleMatches ==
    \E r \in rules :
        /\ starts_with(r, "!")
        /\ matches_gitignore_pattern(relPath, SubSeq(r, 2, Len(r)), isDir)

PlainRuleMatches ==
    \E r \in rules :
        /\ ~starts_with(r, "!")
        /\ matches_gitignore_pattern(relPath, r, isDir)

\* C1: should_ignore returns true iff no negated rule matches the path and at
\* least one non-negated rule matches it; the empty set gives false; with
\* {"*.log", "!important.log"} logs/important.log is kept and logs/other.log
\* is ignored.
C1_ShouldIgnoreContract ==
    ignoreOut.state = "Returned" =>
        /\ ignoreOut.value = (~NegatedRuleMatches /\ PlainRuleMatches)
        /\ (rules = {} => ~ignoreOut.value)
        /\ (rules = {"*.log", "!important.log"} /\ relPath = "logs/important.log"
               => ~ignoreOut.value)
        /\ (rules = {"*.log", "!important.log"} /\ relPath = "logs/other.log"
               => ignoreOut.value)

\* a call in which a negated and a non-negated rule both match
C1_Witness ==
    /\ ignoreOut.state = "Returned"
    /\ rules = {"*.log", "!important.log"}
    /\ relPath = "logs/important.log"
    /\ NegatedRuleMatches /\ PlainRuleMatches
    /\ ~ignoreOut.value

\* C2: the value returned is the same for every order in which the rule set
\* is iterated, although the loop's should_ignore flag is not.
C2_OrderIndependent ==
    ignoreOut.state = "Returned" =>
        \A o \in Orders(rules) :
            should_ignore_by_gitignore(relPath, o, isDir).value = ignoreOut.value

\* a call whose should_ignore flag ended true where another order ends false
C2_Witness ==
    /\ ignoreOut.state = "Returned"
    /\ ignoreOut.matched_negated
    /\ ignoreOut.should_ignore
    /\ \E o \in Orders(rules) :
          ~should_ignore_by_gitignore(relPath, o, isDir).should_ignore

(***************************************************************************)
(* Paths as strings (std::path::Path)                                      *)
(***************************************************************************)
\* the last position of the character c in s at or before i, 0 if none
RECURSIVE last_index_of(_, _, _)
last_index_of(s, c, i) ==
    IF i = 0 THEN 0
    ELSE IF SubSeq(s, i, i) = c THEN i
    ELSE last_index_of(s, c, i - 1)

\* Components::trim_right: a path without the separators and the "."
\* components at its end; the root "/" stays
RECURSIVE trim_right(_)
trim_right(s) ==
    IF Len(s) > 1 /\ ends_with(s, "/") THEN trim_right(SubSeq(s, 1, Len(s) - 1))
    ELSE IF ends_with(s, "/.") THEN trim_right(SubSeq(s, 1, Len(s) - 1))
    ELSE s

\* Components::trim_left: a path without the separators and the "."
\* components at its start, as the iterator skips them after a component
RECURSIVE trim_left(_)
trim_left(s) ==
    IF starts_with(s, "/") THEN trim_left(SubSeq(s, 2, Len(s)))
    ELSE IF s = "." THEN ""
    ELSE IF starts_with(s, "./") THEN trim_left(SubSeq(s, 3, Len(s)))
    ELSE s

\* the first position of the character c in s at or after i, 0 if none
RECURSIVE index_of(_, _, _)
index_of(s, c, i) ==
    IF i > Len(s) THEN 0
    ELSE IF SubSeq(s, i, i) = c THEN i
    ELSE index_of(s, c, i + 1)

\* Path::components, from the text s on: the root "/" if s is the start of
\* an absolute path, then the names between separators; repeated separators
\* and "." are skipped, a "." that starts the path is kept
RECURSIVE components_from(_, _)
components_from(s, at_start) ==
    IF at_start /\ starts_with(s, "/")
    THEN << "/" >> \o components_from(SubSeq(s, 2, Len(s)), FALSE)
    ELSE LET t == IF at_start THEN s ELSE trim_left(s)
             k == index_of(t, "/", 1)
         IN  IF t = "" THEN << >>
             ELSE IF k = 0 THEN << t >>
             ELSE << SubSeq(t, 1, k - 1) >>
                  \o components_from(SubSeq(t, k, Len(t)), FALSE)

components(path) == components_from(path, TRUE)

\* the text of path that is left once its first n components are consumed
RECURSIVE skip_components(_, _, _)
skip_components(s, n, at_start) ==
    IF n = 0 THEN (IF at_start THEN s ELSE trim_left(s))
    ELSE IF at_start /\ starts_with(s, "/")
    THEN skip_components(SubSeq(s, 2, Len(s)), n - 1, FALSE)
    ELSE LET t == IF at_start THEN s ELSE trim_left(s)
             k == index_of(t, "/", 1)
         IN  IF k = 0 THEN ""
             ELSE skip_components(SubSeq(t, k, Len(t)), n - 1, FALSE)

\* Path::file_name: the last component, if it is a name; nothing (written
\* "") when it is the root, ".." or the "." that stands for the whole path
file_name(path) ==
    LET t == trim_right(path)
        f == SubSeq(t, last_index_of(t, "/", Len(t)) + 1, Len(t))
    IN  IF t = "/" \/ t = "." \/ f = ".." THEN "" ELSE f

\* Path::parent, unwrapped with Path::new(""): the path without its last
\* component; nothing for the root and for the empty path
parent(path) ==
    LET t == trim_right(path)
        k == last_index_of(t, "/", Len(t))
    IN  IF t = "/" \/ k = 0 THEN ""
        ELSE trim_right(SubSeq(t, 1, k))

\* Path::join: an absolute name replaces dir; no separator is added after
\* an empty dir or one that ends with a separator
join(dir, name) ==
    IF starts_with(name, "/") THEN name
    ELSE IF dir = "" \/ ends_with(dir, "/") THEN dir \o name
    ELSE dir \o "/" \o name

\* Path::extension: nothing when the file name has no '.', or only a leading
\* one; otherwise the text after the last '.'
extension(path) ==
    LET f == file_name(path)
        k == last_index_of(f, ".", Len(f))
    IN  IF f = ".." \/ k = 0 \/ k = 1
        THEN [some |-> FALSE, value |-> ""]
        ELSE [some |-> TRUE, value |-> SubSeq(f, k + 1, Len(f))]

\* path.strip_prefix(root).unwrap_or(path): when the components of root
\* start those of path, the text of the components that follow (as_path of
\* the iterator: without the separators and "." at its end, also when root
\* has no component); else path
strip_prefix(path, root) ==
    LET cp == components(path)
        cr == components(root)
    IN  IF Len(cr) <= Len(cp) /\ SubSeq(cp, 1, Len(cr)) = cr
        THEN trim_right(skip_components(path, Len(cr), TRUE))
        ELSE path

(***************************************************************************)
(* The file system the walks run over                                      *)
(***************************************************************************)
\* the directories and what read_dir lists in each of them
FsDirs ==
    ("proj" :> << ".env", ".git", ".gitignore", "a.rs", "build",
                  "empty", "ln.rs", "locked", "logs", "src" >>) @@
    ("proj/.git" :> << "hook.rs" >>) @@
    ("proj/build" :> << "out.rs" >>) @@
    ("proj/empty" :> << >>) @@
    ("proj/locked" :> << "s.rs" >>) @@
    ("proj/logs" :> << "important.log", "other.log" >>) @@
    ("proj/src" :> << "m.rs" >>)

\* symbolic links (to a regular file)
FsSymlinks == { "proj/ln.rs" }

\* directories whose read_dir fails
FsUnreadable == { "proj/locked" }

FsPaths ==
    { "proj" } \cup
    UNION { { join(d, FsDirs[d][i]) : i \in DOMAIN FsDirs[d] } : d \in DOMAIN FsDirs }

\* DirEntry::file_type
file_type(path) ==
    IF path \in DOMAIN FsDirs THEN "dir"
    ELSE IF path \in FsSymlinks THEN "symlink"
    ELSE "file"

\* Path::is_dir (follows a symbolic link)
path_is_dir(path) == path \in DOMAIN FsDirs

\* the root paths given on the command line: a directory, a regular file and
\* a path that does not exist
RootPool == { "proj", "proj/a.rs", "nope" }

\* the listing of the root directory in the order without a rule
Unsorted ==
    "proj" :> << ".env", "src", "locked", "a.rs", ".git", "ln.rs", ".gitignore",
                 "logs", "empty", "build" >>

\* read_dir(dir) in one of the orders a file system lists a directory in:
\* by name, by name backwards, and an order without a rule
read_dir(dir, ord) ==
    IF ord = "forward" THEN FsDirs[dir]
    ELSE IF ord = "backward"
    THEN [i \in DOMAIN FsDirs[dir] |-> FsDirs[dir][Len(FsDirs[dir]) + 1 - i]]
    ELSE IF dir \in DOMAIN Unsorted THEN Unsorted[dir]
    ELSE FsDirs[dir]

\* the file system's order of every directory: each directory has its own
\* (of the orders that list a directory alike, the first stands for all)
ReadDirOrders ==
    { o \in [DOMAIN FsDirs -> { "forward", "backward", "unsorted" }] :
        \A d \in DOMAIN FsDirs :
           /\ o[d] = "backward" => read_dir(d, "backward") # read_dir(d, "forward")
           /\ o[d] = "unsorted" =>
                 read_dir(d, "unsorted") \notin { read_dir(d, "forward"),
                                                  read_dir(d, "backward") } }

(***************************************************************************)
(* parse_gitignore                                                         *)
(***************************************************************************)
\* char::is_whitespace: the White_Space characters (those from U+2000 on
\* cannot be written in a string of this module)
is_whitespace(c) ==
    c \in { " ", "\t", "\n", "\r", "\f", "", "", " ", " " }

RECURSIVE trim_start(_)
trim_start(s) ==
    IF Len(s) > 0 /\ is_whitespace(SubSeq(s, 1, 1))
    THEN trim_start(SubSeq(s, 2, Len(s))) ELSE s

RECURSIVE trim_end(_)
trim_end(s) ==
    IF Len(s) > 0 /\ is_whitespace(SubSeq(s, Len(s), Len(s)))
    THEN trim_end(SubSeq(s, 1, Len(s) - 1)) ELSE s

trim(s) == trim_end(trim_start(s))

Ok(v) == [state |-> "Ok", value |-> v]
Err(m) == [state |-> "Err", msg |-> m]

\* <root>/.gitignore: a regular file with these lines; a file that cannot be
\* opened, or whose line after `lines` is not UTF-8 (fault is the error
\* File::open or the line gives); or no such regular file
IgnoreFile(lines) == [exists |-> TRUE, lines |-> lines, fault |-> ""]
FaultyFile(lines, fault) == [exists |-> TRUE, lines |-> lines, fault |-> fault]
NoFile == [exists |-> FALSE, lines |-> <<>>, fault |-> ""]

\* the errors of File::open and of BufRead::lines
OpenErrors == { "Permission denied (os error 13)" }
Utf8Error == "stream did not contain valid UTF-8"

\* parse_gitignore inserting every kept line as trimmed, a negated one too
parse_gitignore_trimmed_lines(file) ==
    IF ~file.exists THEN Ok({})
    ELSE IF file.fault # "" THEN Err(file.fault)
    ELSE Ok({ trim(file.lines[i]) :
              i \in { j \in DOMAIN file.lines :
                        /\ trim(file.lines[j]) # ""
                        /\ ~starts_with(trim(file.lines[j]), "#") } })

\* parse_gitignore skipping a line that is a lone '!'
parse_gitignore_skips_bare_bang(file) ==
    IF ~file.exists THEN Ok({})
    ELSE IF file.fault # "" THEN Err(file.fault)
    ELSE Ok({ IF starts_with(trim(file.lines[i]), "!") /\ Len(trim(file.lines[i])) > 1
              THEN "!" \o trim(SubSeq(trim(file.lines[i]), 2, Len(trim(file.lines[i]))))
              ELSE trim(file.lines[i]) :
              i \in { j \in DOMAIN file.lines :
                        /\ trim(file.lines[j]) # ""
                        /\ trim(file.lines[j]) # "!"
                        /\ ~starts_with(trim(file.lines[j]), "#") } })

\* parse_gitignore(root): Ok with the patterns inserted for the root's
\* ignore file, Ok with none when there is no such regular file, the error
\* of File::open or of the first line that cannot be read
parse_gitignore(file) ==
    IF ~file.exists THEN Ok({})
    ELSE IF file.fault # "" THEN Err(file.fault)
    ELSE Ok({ IF starts_with(trim(file.lines[i]), "!") /\ Len(trim(file.lines[i])) > 1
              THEN "!" \o trim(SubSeq(trim(file.lines[i]), 2, Len(trim(file.lines[i]))))
              ELSE trim(file.lines[i]) :
              i \in { j \in DOMAIN file.lines :
                        /\ trim(file.lines[j]) # ""
                        /\ ~starts_with(trim(file.lines[j]), "#") } })

(***************************************************************************)
(* The walks: WalkDir::new(root).into_iter().filter_entry(..)              *)
(*                .filter_map(Result::ok)                                  *)
(***************************************************************************)
Entry(path) == [tag |-> "entry", path |-> path]
WalkError(path) == [tag |-> "error", path |-> path]

\* the iterator before its first item: the root entry, or the error of a
\* root that cannot be stat'ed
WalkDir_new(root) ==
    IF root \in FsPaths THEN << Entry(root) >> ELSE << WalkError(root) >>

\* what the iterator yields after a directory it descends into: its entries
\* in the order read_dir lists this directory in, or the error of a read_dir
\* that failed
descend(dir, orders) ==
    IF dir \in FsUnreadable THEN << WalkError(dir) >>
    ELSE [i \in DOMAIN FsDirs[dir] |-> Entry(join(dir, read_dir(dir, orders[dir])[i]))]

\* what is left to yield once the entry at the head has passed the filter
after_yield(items, orders) ==
    IF file_type(Head(items).path) = "dir"
    THEN descend(Head(items).path, orders) \o Tail(items)
    ELSE Tail(items)

\* exclude_patterns plus the version-control directory name, if not empty
all_exclude_patterns(cfg) ==
    IF cfg.exclude_version_control_dir # ""
    THEN cfg.exclude_patterns \cup { cfg.exclude_version_control_dir }
    ELSE cfg.exclude_patterns

exclude_match(path, patterns) ==
    patterns = {} \/ ~(\E pat \in patterns : contains(path, pat))

\* gitignore_match asking the ignore rules about files only
gitignore_match_files_only(path, cfg, ord) ==
    IF cfg.apply_dot_git_ignore /\ ~path_is_dir(path)
    THEN ~should_ignore_by_gitignore(strip_prefix(path, cfg.root_path), ord,
                                     path_is_dir(path)).value
    ELSE TRUE

\* gitignore_match of the filter_entry closures; ord is the order in which
\* this call of should_ignore_by_gitignore iterates gitignore_patterns
gitignore_match(path, cfg, ord) ==
    IF cfg.apply_dot_git_ignore
    THEN ~should_ignore_by_gitignore(strip_prefix(path, cfg.root_path), ord,
                                     path_is_dir(path)).value
    ELSE TRUE

\* the filter_entry closure of list_code_files
filter_entry_plain(path, cfg) == exclude_match(path, cfg.exclude_patterns)

\* the filter_entry closure of list_code_files_with_gitignore
filter_entry_with_gitignore(path, cfg, ord) ==
    /\ exclude_match(path, all_exclude_patterns(cfg))
    /\ gitignore_match(path, cfg, ord)

ext_matches(path, extensions) ==
    IF extensions = {} THEN TRUE
    ELSE /\ extension(path).some
         /\ \E ext \in extensions : trim_start_matches(ext, ".") = extension(path).value

\* let gitignore_patterns = if apply_dot_git_ignore { parse_gitignore(root)? }
\* else { HashSet::new() }, before the `?`
loaded_patterns(cfg, file) ==
    IF cfg.apply_dot_git_ignore THEN parse_gitignore(file) ELSE Ok({})

\* the orders in which a call of should_ignore_by_gitignore can iterate the
\* loaded patterns
iter_orders(cfg, file) == Orders(loaded_patterns(cfg, file).value)

\* generate_context: list_code_files_with_gitignore when the ignore file is
\* applied, list_code_files otherwise
discover_filter(path, cfg, ord) ==
    IF cfg.apply_dot_git_ignore
    THEN filter_entry_with_gitignore(path, cfg, ord)
    ELSE filter_entry_plain(path, cfg)

\* the loop body of list_code_files: the `excluded` test repeats the filter
matched_plain(path, cfg) ==
    /\ ext_matches(path, cfg.extensions)
    /\ ~(cfg.exclude_patterns # {}
         /\ \E pattern \in cfg.exclude_patterns : contains(path, pattern))

discover_matched(path, cfg) ==
    IF cfg.apply_dot_git_ignore
    THEN ext_matches(path, cfg.extensions)
    ELSE matched_plain(path, cfg)

\* the closure given exclude_patterns without the version-control name
file_map_filter_without_vcs(path, cfg, ord) ==
    /\ exclude_match(path, cfg.exclude_patterns)
    /\ gitignore_match(path, cfg, ord)

\* the filter_entry closure of list_dir_structure_with_gitignore, called by
\* generate_file_map
file_map_filter(path, cfg, ord) ==
    /\ exclude_match(path, all_exclude_patterns(cfg))
    /\ gitignore_match(path, cfg, ord)

(***************************************************************************)
(* select_files and the end of generate_context / run                      *)
(***************************************************************************)
\* the text of a regular file that is not empty
ContentOf(path) == "content of " \o path

\* read_file_contents(path) for a regular file that exists, in a file
\* system whose files of length 0 are reader.empty and whose files that
\* cannot be opened or decoded are reader.bad: the length is tested first
\* and an empty file is not opened
read_file_contents(path, reader) ==
    IF path \in reader.empty THEN Ok("")
    ELSE IF path \in reader.bad THEN Err("cannot read " \o path)
    ELSE Ok(ContentOf(path))

\* a loop that gives up at the first read error
RECURSIVE read_all_stop_at_error(_, _)
read_all_stop_at_error(paths, reader) ==
    IF paths = <<>> THEN <<>>
    ELSE IF read_file_contents(Head(paths), reader).state = "Err" THEN <<>>
    ELSE << [path |-> Head(paths),
             content |-> read_file_contents(Head(paths), reader).value] >>
         \o read_all_stop_at_error(Tail(paths), reader)

\* the FileContext list select_files builds from `paths` with the reader:
\* a path whose read fails is skipped
RECURSIVE read_all(_, _)
read_all(paths, reader) ==
    IF paths = <<>> THEN <<>>
    ELSE IF read_file_contents(Head(paths), reader).state = "Err"
    THEN read_all(Tail(paths), reader)
    ELSE << [path |-> Head(paths),
             content |-> read_file_contents(Head(paths), reader).value] >>
         \o read_all(Tail(paths), reader)

\* select_files(files, file_reader, auto), run_tui returning `tui` when it
\* is called
select_files(fs, reader, auto, tui) ==
    IF fs = <<>> THEN Ok(<<>>)
    ELSE IF auto THEN Ok(read_all(fs, reader))
    ELSE IF tui.state = "Err" THEN Err(tui.msg)
    ELSE Ok(read_all(tui.paths, reader))

\* run treating every message with "No files" as a quiet exit
run_result_no_files(r) ==
    IF r.state = "Err"
       /\ (contains(r.msg, "No files") \/ contains(r.msg, "Selection cancelled"))
    THEN [state |-> "Ok", value |-> "quiet"]
    ELSE r

\* what run makes of generate_context's result
run_result(r) ==
    IF r.state = "Err"
       /\ (contains(r.msg, "No files selected") \/ contains(r.msg, "Selection cancelled"))
    THEN Ok("quiet")
    ELSE r

(***************************************************************************)
(* SpecContext: run -> generate_context, one step of a walk per action     *)
(***************************************************************************)
MaxExcludes == 1

\* the --exclude lists: at most MaxExcludes of two substrings
ExcludeSets == { S \in SUBSET { "src", "proj" } : Cardinality(S) <= MaxExcludes }

\* the lines of the root's ignore file, in the order of the file
GitignoreLines == << "*.log", "!important.log", "build", "!out.rs" >>


\* the ignore files of the root: at most MaxRules of the lines; one of
\* length 0 and one of one line that cannot be opened; one with a line that
\* is not UTF-8
GitignoreFiles ==
    { IgnoreFile(SelectSeq(GitignoreLines, LAMBDA l : l \in S)) :
        S \in { T \in SUBSET Range(GitignoreLines) : Cardinality(T) <= MaxRules } }
    \cup { FaultyFile(<<>>, e) : e \in OpenErrors }
    \cup { FaultyFile(<< "build" >>, e) : e \in OpenErrors }
    \cup { FaultyFile(<< "*.log" >>, Utf8Error) }

\* the ignore files of the root of cfg.  Without apply_dot_git_ignore the
\* rules are not loaded and the file is one of the files read by
\* read_file_contents: one with a rule, the empty one and the faulty ones
GitignoreFilesOf(cfg) ==
    IF cfg.root_path # "proj" THEN { NoFile }
    ELSE IF cfg.apply_dot_git_ignore THEN GitignoreFiles
    ELSE { f \in GitignoreFiles : f.fault # "" \/ f.lines \in { << >>, << "build" >> } }

\* the prompts given with --prompt, and those typed into get_prompt_input
\* (user_prompt, an Option<String>, is << >> for None and << text >> for
\* Some(text))
PromptPool == { "Explain this code" }

\* the values of ContextConfig generate_context can be called with
ContextConfigs ==
    [root_path : RootPool,
     extensions : { {}, {"rs"}, {".rs", "env"} },
     exclude_patterns : ExcludeSets,
     exclude_version_control_dir : { ".git" },
     apply_dot_git_ignore : BOOLEAN,
     auto_select : BOOLEAN,
     user_prompt : { << >> } \cup { << t >> : t \in PromptPool }]

\* the ContextConfig run builds from a command line: apply_dot_git_ignore is
\* a flag with the default "true", which no argument turns off
Configs == { c \in ContextConfigs : c.apply_dot_git_ignore }

\* the sets of regular files that cannot be read for a reason the rest of
\* the state does not tell
BadReadSets ==
    { {}, FsPaths, { "proj/a.rs" }, { "proj/build/out.rs", "proj/src/m.rs", "proj/.git/hook.rs" } }

\* the files of length 0: the root's ignore file when it has no line
EmptyFiles(cfg, file) ==
    IF file.exists /\ file.lines = << >>
    THEN { join(cfg.root_path, ".gitignore") } ELSE {}

\* File::open or read_to_string fails on the ignore file that
\* parse_gitignore cannot open or decode
UnreadableIgnoreFile(cfg, file) ==
    IF file.fault # "" THEN { join(cfg.root_path, ".gitignore") } ELSE {}

\* read_file_contents in the file system of the state: the files of
\* length 0, and the files that cannot be opened or decoded (a file of
\* length 0 is returned as "" before it is opened)
FileReaders(cfg, file) ==
    { [empty |-> EmptyFiles(cfg, file),
       bad |-> (bad \cup UnreadableIgnoreFile(cfg, file)) \ EmptyFiles(cfg, file)] :
        bad \in BadReadSets }

TuiNotRun == [state |-> "NotRun"]

\* App::new for paths that are strings: the components are those of
\* Path::components, the File leaf keeps the path as it was given
RECURSIVE add_path_strings(_, _, _)
add_path_strings(root, fs, i) ==
    IF i > Len(fs) THEN root
    ELSE add_path_strings(IF components(fs[i]) = << >> THEN root
                          ELSE add_components(root, components(fs[i]), fs[i]),
                          fs, i + 1)

\* what get_selected_paths returns when every file of the tree built from
\* fs is selected: the paths in the order of the tree
tree_file_paths(fs) ==
    get_selected_paths(
        select_all_files(from_tree(add_path_strings(new_directory(""), fs, 1))))

\* the entries of s at the positions I, in the order of s
SubSeqAt(s, I) ==
    [k \in 1..Cardinality(I) |->
        s[CHOOSE i \in I : Cardinality({ j \in I : j <= i }) = k]]

\* the selections run_app can return Ok with: the files of the tree that
\* are selected when the user confirms, never none of them.  Space marks
\* and unmarks one file, so every set of files can be the selected one; the
\* paths come in the order of the tree
Selections(fs) ==
    LET all == tree_file_paths(fs)
    IN  { SubSeqAt(all, I) : I \in (SUBSET (1..Len(all))) \ { {} } }

\* what run_tui can return for the list fs: the error of a terminal it
\* cannot set up; else what it makes of run_app's result (its two errors, an
\* I/O error, a non-empty selection), or the error of a terminal it cannot
\* restore
TuiOutcomes(fs) ==
    { run_tui_io(e, "not called") : e \in IoErrors }
    \cup UNION { run_tui_returns(r) :
                  r \in { run_tui_err("No files selected"),
                          run_tui_err("Selection cancelled") }
                        \cup { [state |-> "Ok", paths |-> sel, run_app |-> "Ok"] :
                                 sel \in Selections(fs) }
                        \cup { run_tui_err(e) : e \in IoErrors } }

\* the errors of the output sink: the clipboard, fs::write, write_all on the
\* standard output
SinkErrors ==
    { "Failed to access clipboard: no display", "Permission denied (os error 13)",
      "Broken pipe (os error 32)" }

\* the errors of a write to the standard output
StdoutErrors ==
    { "No space left on device (os error 28)", "Broken pipe (os error 32)" }

Running == [state |-> "Running"]

\* run has returned: generate_context's result, what run made of it, and
\* the place generate_context returned from
Returned(r, at) ==
    [state |-> "Returned", generate_context |-> r, run |-> run_result(r), at |-> at]

\* the program panicked in the function `at` on a write to the standard
\* output that failed with e (unwrap, println!, print!): nothing returns,
\* the process ends with the exit code of a panic
Panicked(at, e) ==
    [state |-> "Panicked", at |-> at, error |-> e, exit_code |-> 101]

\* the program is at `start` with a configuration of cfgs
InitWith(cfgs, start) ==
    /\ config \in cfgs
    /\ dotGitignore \in GitignoreFilesOf(config)
    /\ readDirOrder \in ReadDirOrders
    /\ pc = start
    /\ walk = WalkDir_new(config.root_path)
    /\ available_files = <<>>
    /\ discovered = Running
    /\ dir_map = <<>>
    /\ selection = [state |-> "NotCalled"]
    /\ selected_files = <<>>
    /\ outcome = Running
    /\ walkLog = [errors |-> 0, yielded |-> {}, map_complete |-> FALSE]
    /\ TuiIdle
    /\ IgnoreIdle
    /\ MatchIdle

\* run: the configuration comes from the command line
InitContext == InitWith(Configs, "run")

\* generate_context called with any ContextConfig
InitGenerate == InitWith(ContextConfigs, "prompt")

\* run, before generate_context: setup_logger, then print_welcome_message,
\* which unwraps the result of each of its writes to the standard output
RunStart ==
    /\ pc = "run"
    /\ \/ /\ pc' = "prompt"
          /\ outcome' = outcome
       \/ /\ \E e \in StdoutErrors : outcome' = Panicked("print_welcome_message", e)
          /\ pc' = "done"
    /\ UNCHANGED <<config, dotGitignore, readDirOrder, walk, available_files,
                   discovered, dir_map, selection, selected_files, walkLog>>
    /\ UNCHANGED <<tuiVars, ignoreVars, matchVars>>

\* get_prompt_input once the terminal is set up: the loop over the keys
\* read, from the locals prompt_text and cursor_position on.  A key is the
\* name of a special key or the character of KeyCode::Char.  The cursor
\* counts keys, and String::insert / String::remove take it as a byte
\* index: behind a character of two bytes in UTF-8 the index is inside the
\* character and the call panics.  The result is Ok(None) / Ok(Some(text)),
\* the panic, or Waiting when the keys end before Enter, Esc or Ctrl+c
RECURSIVE get_prompt_input(_, _, _)
get_prompt_input(keys, prompt_text, cursor_position) ==
    LET n == Len(prompt_text)
        ch(k) == SubSeq(prompt_text, k, k)
        \* the bytes of the first k characters
        bytes(k) == k + Cardinality({ j \in 1..k : ch(j) \in { "é" } })
        len == bytes(n)
        is_char_boundary(idx) == \E k \in 0..n : bytes(k) = idx
        chars_before(idx) == CHOOSE k \in 0..n : bytes(k) = idx
        inside(idx) == CHOOSE k \in 1..n : bytes(k - 1) < idx /\ idx < bytes(k)
        panic(m) == [state |-> "Panic", msg |-> m]
        \* String::insert(idx, c)
        insert(idx, c) ==
            IF ~is_char_boundary(idx)
            THEN panic("assertion failed: self.is_char_boundary(idx)")
            ELSE Ok(SubSeq(prompt_text, 1, chars_before(idx)) \o c
                    \o SubSeq(prompt_text, chars_before(idx) + 1, n))
        \* the grave accent (U+0060) around the text in the message of
        \* str's slice_error_fail, which a string of this module cannot
        \* hold: written as an apostrophe
        grave == "'"
        \* String::remove(idx): self[idx..].chars().next(), then the removal
        remove(idx) ==
            IF ~is_char_boundary(idx)
            THEN panic("start byte index " \o ToString(idx)
                       \o " is not a char boundary; it is inside '" \o ch(inside(idx))
                       \o "' (bytes " \o ToString(bytes(inside(idx) - 1)) \o ".."
                       \o ToString(bytes(inside(idx))) \o ") of " \o grave \o prompt_text \o grave)
            ELSE IF idx = len
            THEN panic("cannot remove a char from the end of a string")
            ELSE Ok(SubSeq(prompt_text, 1, chars_before(idx))
                    \o SubSeq(prompt_text, chars_before(idx) + 2, n))
        key == Head(keys)
        \* the rest of the loop after an edit that returned r
        edited(r, cursor) ==
            IF r.state = "Panic" THEN r
            ELSE get_prompt_input(Tail(keys), r.value, cursor)
        same == get_prompt_input(Tail(keys), prompt_text, cursor_position)
    IN  IF keys = << >> THEN [state |-> "Waiting"]
        ELSE IF key = "Enter"
        THEN Ok(IF prompt_text = "" THEN << >> ELSE << prompt_text >>)
        ELSE IF key \in { "Esc", "Ctrl+c" } THEN Ok(<< >>)
        ELSE IF key = "Backspace"
        THEN IF cursor_position > 0
             THEN edited(remove(cursor_position - 1), cursor_position - 1)
             ELSE same
        ELSE IF key = "Delete"
        THEN IF cursor_position < len
             THEN edited(remove(cursor_position), cursor_position)
             ELSE same
        ELSE IF key = "Left"
        THEN IF cursor_position > 0
             THEN get_prompt_input(Tail(keys), prompt_text, cursor_position - 1)
             ELSE same
        ELSE IF key = "Right"
        THEN IF cursor_position < len
             THEN get_prompt_input(Tail(keys), prompt_text, cursor_position + 1)
             ELSE same
        ELSE IF Len(key) = 1
        THEN edited(insert(cursor_position, key), cursor_position + 1)
        ELSE same

\* the keys typed into the prompt: each text of PromptPool and Enter; an
\* empty and an emptied text; Esc and Ctrl+c; keys typed, deleted and
\* stepped over behind a character of two bytes
PromptKeys ==
    { [i \in 1..Len(t) |-> SubSeq(t, i, i)] \o << "Enter" >> : t \in PromptPool }
    \cup { << "Enter" >>, << "Esc" >>, << "x", "Ctrl+c" >>,
           << "x", "Backspace", "Enter" >>, << "x", "Left", "Delete", "Tab", "Enter" >>,
           << "é", "x" >>, << "é", "Delete" >>, << "é", "Right", "Backspace" >>,
           << "x", "é", "Delete" >> }

\* generate_context, before the scan: a prompt that was not given
\* (config.user_prompt.is_none()) is asked for with get_prompt_input()?,
\* which returns the I/O error of a terminal it cannot set up, draw, read
\* or restore, returns the text typed (None for an empty one), or panics in
\* the editing of the text
AskPrompt ==
    /\ pc = "prompt"
    /\ IF config.user_prompt = << >>
       THEN \/ /\ \E e \in IoErrors : outcome' = Returned(Err(e), "get_prompt_input")
               /\ pc' = "done"
               /\ config' = config
            \/ \E keys \in PromptKeys :
                  LET r == get_prompt_input(keys, "", 0)
                  IN  /\ r.state # "Waiting"
                      /\ IF r.state = "Panic"
                         THEN /\ outcome' = Panicked("get_prompt_input", r.msg)
                              /\ pc' = "done"
                              /\ config' = config
                         ELSE /\ config' = [config EXCEPT !.user_prompt = r.value]
                              /\ pc' = "discover"
                              /\ outcome' = outcome
       ELSE /\ pc' = "discover"
            /\ UNCHANGED <<config, outcome>>
    /\ UNCHANGED <<dotGitignore, readDirOrder, walk, available_files,
                   discovered, dir_map, selection, selected_files, walkLog>>
    /\ UNCHANGED <<tuiVars, ignoreVars, matchVars>>

\* parse_gitignore(root) returned Ok, or is not called
LoadOk == loaded_patterns(config, dotGitignore).state = "Ok"

\* parse_gitignore(root)? returns its error from list_code_files_with_gitignore,
\* and generate_context returns it from there
DiscoverLoadFails ==
    /\ pc = "discover"
    /\ ~LoadOk
    /\ discovered' = Err(loaded_patterns(config, dotGitignore).msg)
    /\ outcome' = Returned(Err(loaded_patterns(config, dotGitignore).msg),
                            "parse_gitignore")
    /\ pc' = "done"
    /\ walk' = <<>>
    /\ UNCHANGED <<config, dotGitignore, readDirOrder, available_files, dir_map,
                   selection, selected_files, walkLog>>
    /\ UNCHANGED <<tuiVars, ignoreVars, matchVars>>

\* an error item that ends the walk
DiscoverSkipError_aborts ==
    /\ pc = "discover"
    /\ LoadOk
    /\ walk # <<>>
    /\ Head(walk).tag = "error"
    /\ walk' = <<>>
    /\ walkLog' = [walkLog EXCEPT !.errors = @ + 1]
    /\ UNCHANGED <<config, dotGitignore, readDirOrder, pc, available_files,
                   discovered, dir_map, selection, selected_files, outcome>>
    /\ UNCHANGED <<tuiVars, ignoreVars, matchVars>>

\* filter_map(Result::ok) drops the error the iterator yields
DiscoverSkipError ==
    /\ pc = "discover"
    /\ LoadOk
    /\ walk # <<>>
    /\ Head(walk).tag = "error"
    /\ walk' = Tail(walk)
    /\ walkLog' = [walkLog EXCEPT !.errors = @ + 1]
    /\ UNCHANGED <<config, dotGitignore, readDirOrder, pc, available_files,
                   discovered, dir_map, selection, selected_files, outcome>>
    /\ UNCHANGED <<tuiVars, ignoreVars, matchVars>>

\* filter_entry rejects the entry: it is not yielded and not descended into
DiscoverPrune ==
    /\ pc = "discover"
    /\ LoadOk
    /\ walk # <<>>
    /\ Head(walk).tag = "entry"
    /\ \E ord \in iter_orders(config, dotGitignore) :
          ~discover_filter(Head(walk).path, config, ord)
    /\ walk' = Tail(walk)
    /\ UNCHANGED <<config, dotGitignore, readDirOrder, pc, available_files,
                   discovered, dir_map, selection, selected_files, outcome, walkLog>>
    /\ UNCHANGED <<tuiVars, ignoreVars, matchVars>>

\* the entry passes the filter: one round of the `for entry in ..` loop.
\* For a regular file the round calls progress.update(matched)? before the
\* push: the terminal write it makes when 250 ms have passed can fail, and
\* the error is returned by the list function and by generate_context
DiscoverVisit ==
    /\ pc = "discover"
    /\ LoadOk
    /\ walk # <<>>
    /\ Head(walk).tag = "entry"
    /\ \E ord \in iter_orders(config, dotGitignore) :
          discover_filter(Head(walk).path, config, ord)
    /\ walkLog' = [walkLog EXCEPT !.yielded = @ \cup { Head(walk).path }]
    /\ \/ /\ walk' = after_yield(walk, readDirOrder)
          /\ available_files' =
                IF file_type(Head(walk).path) \in { "dir", "symlink" }
                THEN available_files
                ELSE IF discover_matched(Head(walk).path, config)
                THEN Append(available_files, Head(walk).path)
                ELSE available_files
          /\ UNCHANGED <<pc, discovered, outcome>>
       \/ /\ file_type(Head(walk).path) = "file"
          /\ \E e \in StdoutErrors :
                /\ discovered' = Err(e)
                /\ outcome' = Returned(Err(e), "scan_progress")
          /\ pc' = "done"
          /\ walk' = <<>>
          /\ available_files' = <<>>
    /\ UNCHANGED <<config, dotGitignore, readDirOrder, dir_map,
                   selection, selected_files>>
    /\ UNCHANGED <<tuiVars, ignoreVars, matchVars>>

\* the walk is over: progress.finish()?, whose terminal write can fail, then
\* Ok(result)
DiscoverReturn ==
    /\ pc = "discover"
    /\ LoadOk
    /\ walk = <<>>
    /\ \/ /\ discovered' = Ok(available_files)
          /\ pc' = "discovered"
          /\ UNCHANGED <<available_files, outcome>>
       \/ /\ \E e \in StdoutErrors :
                /\ discovered' = Err(e)
                /\ outcome' = Returned(Err(e), "scan_progress")
          /\ pc' = "done"
          /\ available_files' = <<>>
    /\ UNCHANGED <<config, dotGitignore, readDirOrder, walk, dir_map,
                   selection, selected_files, walkLog>>
    /\ UNCHANGED <<tuiVars, ignoreVars, matchVars>>

\* generate_context stops when the list is empty; else it calls
\* generate_file_map, which starts the second walk
CheckAvailable ==
    /\ pc = "discovered"
    /\ IF available_files = <<>>
       THEN /\ outcome' = Returned(Err("No files found matching the specified criteria"),
                                   "discovery")
            /\ pc' = "done"
            /\ walk' = <<>>
       ELSE /\ outcome' = outcome
            /\ pc' = "file_map"
            /\ walk' = WalkDir_new(config.root_path)
    /\ UNCHANGED <<config, dotGitignore, readDirOrder, available_files, discovered,
                   dir_map, selection, selected_files, walkLog>>
    /\ UNCHANGED <<tuiVars, ignoreVars, matchVars>>

MapSkipError ==
    /\ pc = "file_map"
    /\ walk # <<>>
    /\ Head(walk).tag = "error"
    /\ walk' = Tail(walk)
    /\ UNCHANGED <<config, dotGitignore, readDirOrder, pc, available_files,
                   discovered, dir_map, selection, selected_files, outcome, walkLog>>
    /\ UNCHANGED <<tuiVars, ignoreVars, matchVars>>

MapPrune ==
    /\ pc = "file_map"
    /\ walk # <<>>
    /\ Head(walk).tag = "entry"
    /\ \E ord \in iter_orders(config, dotGitignore) :
          ~file_map_filter(Head(walk).path, config, ord)
    /\ walk' = Tail(walk)
    /\ UNCHANGED <<config, dotGitignore, readDirOrder, pc, available_files,
                   discovered, dir_map, selection, selected_files, outcome, walkLog>>
    /\ UNCHANGED <<tuiVars, ignoreVars, matchVars>>

\* one round of the loop of list_dir_structure_with_gitignore: the entry is
\* entered into the map, then progress.update(true)?, whose terminal write
\* can fail; generate_file_map and generate_context return the error
MapVisit ==
    /\ pc = "file_map"
    /\ walk # <<>>
    /\ Head(walk).tag = "entry"
    /\ \E ord \in iter_orders(config, dotGitignore) :
          file_map_filter(Head(walk).path, config, ord)
    /\ \/ /\ walk' = after_yield(walk, readDirOrder)
          /\ dir_map' =
                LET path == Head(walk).path
                    key == parent(path)
                IN  IF file_type(path) = "dir"
                    THEN IF path \in DOMAIN dir_map THEN dir_map
                         ELSE dir_map @@ (path :> <<>>)
                    ELSE IF file_type(path) = "file"
                    THEN IF key \in DOMAIN dir_map
                         THEN [dir_map EXCEPT ![key] = Append(@, path)]
                         ELSE dir_map @@ (key :> << path >>)
                    ELSE dir_map
          /\ UNCHANGED <<pc, outcome>>
       \/ /\ \E e \in StdoutErrors :
                outcome' = Returned(Err(e), "generate_file_map")
          /\ pc' = "done"
          /\ walk' = <<>>
          /\ dir_map' = <<>>
    /\ UNCHANGED <<config, dotGitignore, readDirOrder, available_files,
                   discovered, selection, selected_files, walkLog>>
    /\ UNCHANGED <<tuiVars, ignoreVars, matchVars>>

\* the walk is over: progress.finish()?, whose terminal write can fail, then
\* Ok(dir_map)
FileMapReturn ==
    /\ pc = "file_map"
    /\ walk = <<>>
    /\ \/ /\ pc' = "select"
          /\ walkLog' = [walkLog EXCEPT !.map_complete = TRUE]
          /\ UNCHANGED <<dir_map, outcome>>
       \/ /\ \E e \in StdoutErrors :
                outcome' = Returned(Err(e), "generate_file_map")
          /\ pc' = "done"
          /\ dir_map' = <<>>
          /\ walkLog' = walkLog
    /\ UNCHANGED <<config, dotGitignore, readDirOrder, walk, available_files,
                   discovered, selection, selected_files>>
    /\ UNCHANGED <<tuiVars, ignoreVars, matchVars>>

\* select_files returns r, made with the reader and run_tui's result
\* `tui`, through the `?` of generate_context, which then tests the list
select_files_returns(reader, tui) ==
    LET r == select_files(available_files, reader, config.auto_select, tui)
    IN  /\ selection' = [state |-> "Called", reader |-> reader, tui |-> tui,
                         result |-> r]
        /\ IF r.state = "Err"
           THEN /\ selected_files' = <<>>
                /\ outcome' = Returned(r, "select_files")
                /\ pc' = "done"
           ELSE /\ selected_files' = r.value
                /\ IF r.value = <<>>
                   THEN /\ outcome' = Returned(Err("No files were selected"),
                                               "selected_files")
                        /\ pc' = "done"
                   ELSE /\ outcome' = outcome
                        /\ pc' = "build"

\* select_files(available_files, read_file_contents, auto_select) is
\* called: with auto it reads the files and returns; without, it calls
\* run_tui, which waits for the user's keys
SelectFiles ==
    /\ pc = "select"
    /\ IF available_files = <<>> \/ config.auto_select
       THEN \E reader \in (IF available_files = <<>>
                            THEN { [empty |-> {}, bad |-> {}] }
                            ELSE FileReaders(config, dotGitignore)) :
               select_files_returns(reader, TuiNotRun)
       ELSE /\ pc' = "run_tui"
            /\ selection' = [state |-> "InTui"]
            /\ UNCHANGED <<selected_files, outcome>>
    /\ UNCHANGED <<config, dotGitignore, readDirOrder, walk, available_files,
                   discovered, dir_map, walkLog>>
    /\ UNCHANGED <<tuiVars, ignoreVars, matchVars>>

\* run_tui returns; on Ok select_files reads the selected paths and
\* returns; on Err no file is read (the record has the reader without a
\* file)
RunTuiReturns ==
    /\ pc = "run_tui"
    /\ \E tui \in TuiOutcomes(available_files) :
       \E reader \in (IF tui.state = "Err" THEN { [empty |-> {}, bad |-> {}] }
                      ELSE FileReaders(config, dotGitignore)) :
          select_files_returns(reader, tui)
    /\ UNCHANGED <<config, dotGitignore, readDirOrder, walk, available_files,
                   discovered, dir_map, walkLog>>
    /\ UNCHANGED <<tuiVars, ignoreVars, matchVars>>

\* build_context_output unwraps the result of each of its writes to the
\* standard output
BuildContextOutput ==
    /\ pc = "build"
    /\ \/ /\ pc' = "write"
          /\ outcome' = outcome
       \/ /\ \E e \in StdoutErrors : outcome' = Panicked("build_context_output", e)
          /\ pc' = "done"
    /\ UNCHANGED <<config, dotGitignore, readDirOrder, walk, available_files,
                   discovered, dir_map, selection, selected_files, walkLog>>
    /\ UNCHANGED <<tuiVars, ignoreVars, matchVars>>

\* write_output: println! of the token count, which panics when the write
\* fails; then the sink takes the text or fails; then, for the clipboard,
\* println! of the preview
WriteOutput ==
    /\ pc = "write"
    /\ \/ outcome' = Returned(Ok("written"), "write_output")
       \/ \E e \in SinkErrors : outcome' = Returned(Err(e), "write_output")
       \/ \E e \in StdoutErrors : outcome' = Panicked("write_output", e)
    /\ pc' = "done"
    /\ UNCHANGED <<config, dotGitignore, readDirOrder, walk, available_files,
                   discovered, dir_map, selection, selected_files, walkLog>>
    /\ UNCHANGED <<tuiVars, ignoreVars, matchVars>>

\* the steps of generate_context
NextGenerate ==
    \/ AskPrompt
    \/ DiscoverLoadFails
    \/ DiscoverSkipError
    \/ DiscoverPrune
    \/ DiscoverVisit
    \/ DiscoverReturn
    \/ CheckAvailable
    \/ MapSkipError
    \/ MapPrune
    \/ MapVisit
    \/ FileMapReturn
    \/ SelectFiles
    \/ RunTuiReturns
    \/ BuildContextOutput
    \/ WriteOutput

\* the steps of run
NextContext ==
    \/ RunStart
    \/ NextGenerate

SpecContext == InitContext /\ [][NextContext]_vars

SpecGenerate == InitGenerate /\ [][NextGenerate]_vars

(***************************************************************************)
(* Claims about discovery and the command (checked under SpecContext)      *)
(***************************************************************************)
\* p is the root or lies below it
UnderRoot(p) ==
    p = config.root_path \/ starts_with(p, config.root_path \o "/")

\* p and the entries above it
SelfAndAbove ==
    [p \in FsPaths |-> { q \in FsPaths : q = p \/ starts_with(p, q \o "/") }]

\* the entries on the way from the root down to p, p included
Chain(p) == { q \in SelfAndAbove[p] : UnderRoot(q) }

\* p exists below the root and every directory above it can be read
Reachable(p) ==
    /\ p \in FsPaths
    /\ UnderRoot(p)
    /\ \A q \in Chain(p) \ { p } : q \notin FsUnreadable

\* the full path contains the version-control name or an exclude substring
Excluded(p) ==
    \/ contains(p, config.exclude_version_control_dir)
    \/ \E pat \in config.exclude_patterns : contains(p, pat)

\* the entries of S the rules of the ignore file ignore, if it is applied
\* (in one iteration order of the rules at least)
IgnoredAmong(S) ==
    IF ~config.apply_dot_git_ignore THEN {}
    ELSE LET ords == Orders(parse_gitignore(dotGitignore).value)
         IN  { p \in S :
                 \E ord \in ords :
                    should_ignore_by_gitignore(strip_prefix(p, config.root_path), ord,
                                               path_is_dir(p)).value }

\* the ignore file is applied and its rules ignore p
Ignored(p) == p \in IgnoredAmong({ p })

\* the entries that are excluded or ignored, or below one that is
PrunedSet ==
    LET ign == IgnoredAmong(FsPaths)
    IN  { p \in FsPaths : \E q \in Chain(p) : Excluded(q) \/ q \in ign }

\* the file name of p has a '.', and the text after the last one is an
\* entry of the allow-list, a leading dot of the entry set aside
AllowListed(p) ==
    LET f == file_name(p)
        k == last_index_of(f, ".", Len(f))
    IN  \/ config.extensions = {}
        \/ /\ k > 0
           /\ \E e \in config.extensions :
                 (IF starts_with(e, ".") THEN SubSeq(e, 2, Len(e)) ELSE e)
                    = SubSeq(f, k + 1, Len(f))

NoDuplicates(seq) == \A i, j \in DOMAIN seq : seq[i] = seq[j] => i = j

\* the returned list holds each non-pruned regular file that can be reached
\* and is allow-listed, once, and nothing else
ExactlyMatching ==
    /\ Range(discovered.value) =
          LET pruned == PrunedSet
          IN  { p \in FsPaths : /\ Reachable(p)
                                /\ file_type(p) = "file"
                                /\ p \notin pruned
                                /\ AllowListed(p) }
    /\ NoDuplicates(discovered.value)

\* C21: discover returns, as a set, exactly the non-pruned regular files
\* (no directory, no symbolic link) whose extension, the text after the last
\* '.', is in the allow-list, or all of them when the allow-list is empty
\* (stated of the list when the list function has returned it; no later
\* step changes it).
C21_DiscoverExactlyMatching ==
    pc = "discovered" => ExactlyMatching

\* C22: whether the ignore file is applied or not, an entry whose full path
\* contains the version-control name or an exclude substring is pruned with
\* its subtree: the walk yields no such entry and discovery emits no such
\* path.
C22_ExclusionPruning ==
    discovered.state = "Ok" =>
        /\ \A p \in walkLog.yielded : ~Excluded(p)
        /\ \A i \in DOMAIN discovered.value : ~Excluded(discovered.value[i])

\* C23: when the root does not exist or is not a directory, discover reports
\* an error: no successful result, be it empty or holding the root file.
C23_BadRootIsError ==
    (/\ discovered.state # "Running"
     /\ (config.root_path \notin FsPaths \/ file_type(config.root_path) # "dir"))
        => discovered.state = "Err"

\* the entries the file-map walk visits: they can be reached and every
\* entry from the root down to them passes the filter
MapVisitedSet ==
    LET ords == iter_orders(config, dotGitignore)
        pass == { q \in FsPaths : \E ord \in ords : file_map_filter(q, config, ord) }
    IN  { p \in FsPaths : Reachable(p) /\ Chain(p) \subseteq pass }

\* how often p is listed in the map
TimesListed(p) ==
    Cardinality({ <<k, i>> \in UNION { { <<d, j>> : j \in DOMAIN dir_map[d] } :
                                        d \in DOMAIN dir_map } :
                    dir_map[k][i] = p })

\* the map has every visited directory as a key, lists every visited
\* regular file once under its parent, and holds nothing else
FileMapShape ==
    LET visited == MapVisitedSet
        pruned == PrunedSet
    IN  /\ \A p \in visited :
              file_type(p) = "dir" => p \in DOMAIN dir_map
        /\ \A p \in visited :
              file_type(p) = "file"
                 => /\ TimesListed(p) = 1
                    /\ parent(p) \in DOMAIN dir_map
                    /\ \E i \in DOMAIN dir_map[parent(p)] : dir_map[parent(p)][i] = p
        /\ \A k \in DOMAIN dir_map : \A i \in DOMAIN dir_map[k] :
              /\ dir_map[k][i] \in visited
              /\ file_type(dir_map[k][i]) = "file"
              /\ parent(dir_map[k][i]) = k
        /\ \A p \in pruned : p \notin DOMAIN dir_map /\ TimesListed(p) = 0

\* C24: the directory-to-files map has a key for every visited directory,
\* an empty one too, and lists every visited regular file's full path once,
\* under the key of its parent directory; nothing excluded by a substring,
\* by the version-control name or by the ignore rules is in it, and the
\* extension allow-list has no part in it.
\* (stated of the map when generate_file_map has returned it; no later
\* step changes it).
C24_FileMapShape ==
    pc = "select" => FileMapShape

\* the map of a walk that met an empty directory, pruned the version-control
\* directory and listed a file the extension allow-list leaves out
C24_Witness ==
    /\ walkLog.map_complete
    /\ config.extensions = {"rs"}
    /\ "proj/empty" \in DOMAIN dir_map
    /\ dir_map["proj/empty"] = <<>>
    /\ "proj/.git" \notin DOMAIN dir_map
    /\ \E i \in DOMAIN dir_map["proj"] : dir_map["proj"][i] = "proj/.env"

\* no returned file and no entry above one, up to the root, is ignored
NoneIgnoredAbove ==
    LET above == UNION { Chain(discovered.value[i]) : i \in DOMAIN discovered.value }
    IN  IgnoredAmong(above) = {}

\* C37: with the ignore file applied, discovery emits a file only if neither
\* the file nor any directory above it, up to the root, is ignored by the
\* rules; a negated rule that matches the file does not bring it back when a
\* directory above it is ignored (stated of the list when the list function
\* has returned it; no later step changes it).
C37_IgnoredAncestorPrunes ==
    (pc = "discovered" /\ config.apply_dot_git_ignore) => NoneIgnoredAbove

\* `build` and `!out.rs`: proj/build/out.rs is not ignored itself, passes the
\* other tests, and is not emitted because proj/build is ignored
C37_Witness ==
    /\ discovered.state = "Ok"
    /\ config.apply_dot_git_ignore
    /\ config.root_path = "proj"
    /\ parse_gitignore(dotGitignore) = Ok({"build", "!out.rs"})
    /\ Ignored("proj/build")
    /\ ~Ignored("proj/build/out.rs")
    /\ ~Excluded("proj/build/out.rs")
    /\ ext_matches("proj/build/out.rs", config.extensions)
    /\ "proj/build/out.rs" \notin Range(discovered.value)
    /\ "proj/a.rs" \in Range(discovered.value)

\* C38: for every configuration, the ignore file applied or not, every path
\* discovery returned is listed in the directory-to-files map under the key
\* of its parent directory.
C38_ListAndMapConsistent ==
    walkLog.map_complete =>
        \A i \in DOMAIN available_files :
            /\ parent(available_files[i]) \in DOMAIN dir_map
            /\ available_files[i] \in Range(dir_map[parent(available_files[i])])

\* the result of the call is Ok with one pair per path the reader can read
\* (an empty file is read as ""), in input order, the selector not having
\* run and whatever it would return; the empty list gives Ok with nothing
AutoSelected ==
    /\ LET good == { i \in DOMAIN available_files :
                       available_files[i] \notin selection.reader.bad }
           r == selection.result
       IN  /\ r.state = "Ok"
           /\ selection.tui = TuiNotRun
           /\ Len(r.value) = Cardinality(good)
           /\ \A i \in good :
                 r.value[Cardinality({ j \in good : j <= i })] =
                    [path |-> available_files[i],
                     content |-> IF available_files[i] \in selection.reader.empty
                                 THEN ""
                                 ELSE ContentOf(available_files[i])]
           /\ \A t \in TuiOutcomes(available_files) :
                 select_files(available_files, selection.reader, TRUE, t) = r
    /\ \A reader \in FileReaders(config, dotGitignore) :
       \A t \in TuiOutcomes(<< "proj/a.rs" >>) :
          select_files(<<>>, reader, TRUE, t) = [state |-> "Ok", value |-> <<>>]

\* select_files has returned and generate_context has tested its result,
\* nothing more
SelectFilesReturned ==
    /\ selection.state = "Called"
    /\ \/ pc = "build"
       \/ pc = "done" /\ outcome.at \in { "select_files", "selected_files" }

\* C28: with auto = true select_files does not run the selector and does not
\* fail: it returns one (path, content) pair per input path whose read
\* succeeds, in input order, skipping the paths whose read fails; the empty
\* list gives the empty result.
\* (Stated of the call when it has returned; no later step changes its
\* record.)
C28_AutoSelection ==
    (SelectFilesReturned /\ config.auto_select) => AutoSelected

\* an automatic selection in which one read failed and the others did not
C28_Witness ==
    /\ selection.state = "Called"
    /\ config.auto_select
    /\ selection.reader.bad = { "proj/a.rs" }
    /\ "proj/a.rs" \in Range(available_files)
    /\ Len(selected_files) = Len(available_files) - 1
    /\ Len(selected_files) >= 2

\* the selector was left with Quit and nothing selected, or with Cancel
QuitOrCancel ==
    /\ selection.state = "Called"
    /\ selection.tui.state = "Err"
    /\ selection.tui.run_app \in { "No files selected", "Selection cancelled" }

\* C29: Quit with nothing selected and Cancel make run return success; a
\* discovery that finds no file, a selection whose reads all fail and a
\* failure of the output sink make it return an error.
C29_QuitAndCancelSucceed ==
    outcome.state = "Returned" =>
        /\ QuitOrCancel => outcome.run.state = "Ok"
        /\ outcome.at = "discovery" => outcome.run.state = "Err"
        /\ outcome.at = "selected_files" => outcome.run.state = "Err"
        /\ (outcome.at = "write_output" /\ outcome.generate_context.state = "Err")
              => outcome.run.state = "Err"

\* C29 (amended): Quit with nothing selected and Cancel make run return
\* success when the terminal is restored after them; when restoring it
\* fails, run returns that I/O error.  A discovery that finds no file, a
\* selection whose reads all fail and a failure of the output sink make run
\* return an error, as do an ignore file that cannot be loaded, a prompt
\* that cannot be asked for and a progress line that cannot be written.
C29_QuietAndFatal ==
    outcome.state = "Returned" =>
        /\ (outcome.at = "select_files"
              /\ selection.tui \in { run_tui_err("No files selected"),
                                     run_tui_err("Selection cancelled") })
              => outcome.run.state = "Ok"
        /\ QuitOrCancel
              => (outcome.run.state = "Ok" <=> selection.tui.msg \notin IoErrors)
        /\ outcome.at = "discovery" => outcome.run.state = "Err"
        /\ outcome.at = "parse_gitignore" => outcome.run.state = "Err"
        /\ outcome.at = "get_prompt_input" => outcome.run.state = "Err"
        /\ outcome.at \in { "scan_progress", "generate_file_map" }
              => outcome.run.state = "Err"
        /\ outcome.at = "selected_files" => outcome.run.state = "Err"
        /\ (outcome.at = "write_output" /\ outcome.generate_context.state = "Err")
              => outcome.run.state = "Err"
        /\ (outcome.at = "write_output" /\ outcome.generate_context.state = "Ok")
              => outcome.run.state = "Ok"

\* the selector was left with 'q' and nothing selected, and run returned Ok
C29_Witness ==
    /\ outcome.state = "Returned"
    /\ outcome.at = "select_files"
    /\ selection.tui = run_tui_err("No files selected")
    /\ outcome.generate_context.state = "Err"
    /\ outcome.run.state = "Ok"

\* the entries the discovery walk visits
DiscoverVisitedSet ==
    LET ords == iter_orders(config, dotGitignore)
        pass == { q \in FsPaths : \E ord \in ords : discover_filter(q, config, ord) }
    IN  { p \in FsPaths : Reachable(p) /\ Chain(p) \subseteq pass }

\* the call returned Ok with every matching file the walk can reach
WalkedToTheEnd ==
    /\ discovered.state = "Ok"
    /\ \A p \in DiscoverVisitedSet :
          (file_type(p) = "file" /\ discover_matched(p, config))
              => p \in Range(discovered.value)

\* C30: an entry that cannot be read during the walk is skipped and the walk
\* goes on: discover still succeeds and returns every matching file it can
\* reach.  (The walk starts once the ignore file, if applied, is loaded; the
\* one error the walk can end with is that of a write of the progress line
\* to the terminal.  The list is looked at when the list function has
\* returned it; no later step changes it.)
C30_EntryErrorsRecovered ==
    /\ (discovered.state = "Err" /\ LoadOk) => discovered.msg \in StdoutErrors
    /\ pc = "discovered" => WalkedToTheEnd

\* the walk met the directory it cannot read before it came to src, and
\* src/m.rs is in the result
C30_Witness ==
    /\ discovered.state = "Ok"
    /\ walkLog.errors = 1
    /\ readDirOrder["proj"] = "forward"
    /\ "proj/src/m.rs" \in Range(discovered.value)
    /\ "proj/locked/s.rs" \notin Range(discovered.value)

(***************************************************************************)
(* SpecLoad: parse_gitignore on the root's ignore file, then one call of   *)
(* should_ignore_by_gitignore with the set it returned                     *)
(***************************************************************************)
\* the longest ignore file, in lines
MaxLines == 2

\* raw lines of an ignore file, as BufRead::lines gives them: a comment, an
\* empty line, rules with and without surrounding blanks (a form feed and
\* a carriage return among them), negated rules, the lone markers
RawLinePool ==
    { "# Comment line", "", "build", "  build\t", "*.log", "\f*.log\r",
      "!important.log", "! important.log", "!", "/" }

\* <root>/.gitignore: any file of at most MaxLines such lines, a file that
\* cannot be opened, a file whose second line is not UTF-8, or no file
RawIgnoreFiles ==
    { IgnoreFile(ls) : ls \in SeqsUpTo(RawLinePool, MaxLines) }
    \cup { FaultyFile(<<>>, e) : e \in OpenErrors }
    \cup { FaultyFile(<< "build" >>, Utf8Error) }
    \cup { NoFile }

\* root-relative paths the walk asks about; "" is the root itself
LoadPathPool ==
    { "", "build", "build/index.js", "logs/important.log", "logs/other.log",
      "src/index.js" }

InitLoad ==
    /\ dotGitignore \in RawIgnoreFiles
    /\ pc = "load"
    /\ rules = {}
    /\ relPath \in LoadPathPool
    /\ isDir \in BOOLEAN
    /\ (relPath = "" => isDir)
    /\ order = <<>>
    /\ ignoreOut = [state |-> "NotCalled"]
    /\ config = [root_path |-> ""]
    /\ readDirOrder = "forward"
    /\ walk = <<>>
    /\ available_files = <<>>
    /\ discovered = [state |-> "Running"]
    /\ dir_map = <<>>
    /\ selection = [state |-> "NotCalled"]
    /\ selected_files = <<>>
    /\ outcome = [state |-> "Running"]
    /\ walkLog = [errors |-> 0]
    /\ TuiIdle
    /\ MatchIdle

\* let gitignore_patterns = parse_gitignore(root)?  -- on Err the caller,
\* list_code_files_with_gitignore, returns the error
LoadPatterns ==
    /\ pc = "load"
    /\ LET r == parse_gitignore(dotGitignore)
       IN  IF r.state = "Ok"
           THEN /\ rules' = r.value
                /\ pc' = "loaded"
                /\ discovered' = discovered
           ELSE /\ rules' = rules
                /\ pc' = "failed"
                /\ discovered' = r
    /\ UNCHANGED <<relPath, isDir, order, ignoreOut>>
    /\ UNCHANGED <<config, dotGitignore, readDirOrder, walk, available_files,
                   dir_map, selection, selected_files, outcome, walkLog>>
    /\ UNCHANGED tuiVars
    /\ UNCHANGED matchVars

\* should_ignore_by_gitignore(path, root, &gitignore_patterns)
ShouldIgnoreLoaded ==
    /\ pc = "loaded"
    /\ ignoreOut.state = "NotCalled"
    /\ \E o \in Orders(rules) :
          /\ order' = o
          /\ ignoreOut' = should_ignore_by_gitignore(relPath, o, isDir)
    /\ UNCHANGED <<rules, relPath, isDir>>
    /\ UNCHANGED tuiVars
    /\ UNCHANGED matchVars
    /\ UNCHANGED contextVars

NextLoad ==
    \/ LoadPatterns
    \/ ShouldIgnoreLoaded

SpecLoad == InitLoad /\ [][NextLoad]_vars

(***************************************************************************)
(* Claims about loading the ignore file (checked under SpecLoad)           *)
(***************************************************************************)
\* the whitespace-trimmed lines that are neither empty nor comments
KeptLines ==
    { trim(dotGitignore.lines[i]) :
        i \in { j \in DOMAIN dotGitignore.lines :
                  /\ trim(dotGitignore.lines[j]) # ""
                  /\ ~starts_with(trim(dotGitignore.lines[j]), "#") } }

\* a kept line as it is stored: the text after the '!' of a negated line is
\* trimmed once more
Stored(t) ==
    IF starts_with(t, "!") /\ Len(t) > 1
    THEN "!" \o trim(SubSeq(t, 2, Len(t)))
    ELSE t

\* C31: loading yields exactly the set of the whitespace-trimmed lines that
\* are non-empty and do not start with '#', a negated line keeping its '!';
\* duplicate lines give one rule; a missing file gives the empty set.
C31_LoadedAreTrimmedLines ==
    pc = "loaded" =>
        /\ rules = KeptLines
        /\ (~dotGitignore.exists => rules = {})

\* C31 (amended): loading a file that can be opened and read as UTF-8 yields
\* that set, but with a negated line longer than '!' stored as '!' followed
\* by the whitespace-trimmed rest of the line, so `! x` and `!x` give the
\* one rule `!x`; whitespace is every White_Space character; a missing file
\* gives the empty set; a file that cannot be opened or read gives the
\* error of the read and no set.
C31_LoadedAreNormalisedLines ==
    /\ pc = "loaded" =>
          /\ dotGitignore.fault = ""
          /\ rules = { Stored(t) : t \in KeptLines }
          /\ (~dotGitignore.exists => rules = {})
          /\ (dotGitignore.lines = <<"build", "  build\t">> => rules = {"build"})
          /\ (dotGitignore.lines = <<"# Comment line", "">> => rules = {})
          /\ (dotGitignore.lines = <<"*.log", "\f*.log\r">> => rules = {"*.log"})
    /\ pc = "failed" =>
          /\ dotGitignore.exists
          /\ dotGitignore.fault # ""
          /\ discovered = Err(dotGitignore.fault)

\* a file with `! important.log` and `!important.log` was loaded as one rule
C31_Witness ==
    /\ pc = "loaded"
    /\ dotGitignore.lines = <<"! important.log", "!important.log">>
    /\ rules = {"!important.log"}
    /\ KeptLines = {"! important.log", "!important.log"}

\* C39: a line that is only `!` is loaded as the negated rule with the empty
\* pattern, which matches every path, so should_ignore is false for every
\* path whatever the other rules are; a line that is only `/` is loaded as a
\* rule that matches every directory, the root included (and no file).
C39_EmptyPatternMatchesAll ==
    ignoreOut.state = "Returned" =>
        /\ matches_gitignore_pattern(relPath, "", isDir)
        /\ ("!" \in KeptLines =>
               /\ "!" \in rules
               /\ ignoreOut.matched_negated
               /\ ~ignoreOut.value)
        /\ ("/" \in KeptLines =>
               /\ "/" \in rules
               /\ matches_gitignore_pattern(relPath, "/", isDir) = isDir
               /\ (isDir => (ignoreOut.should_ignore \/ ignoreOut.matched_negated))
               /\ ((isDir /\ rules = {"/"}) => ignoreOut.value))

\* `build` was ignored by another rule of the file and kept by the lone `!`
C39_Witness ==
    /\ ignoreOut.state = "Returned"
    /\ dotGitignore.lines = <<"build", "!">>
    /\ relPath = "build/index.js"
    /\ matches_gitignore_pattern(relPath, "build", isDir)
    /\ ~ignoreOut.value

\* the root was ignored by the lone `/`
C39_WitnessRoot ==
    /\ ignoreOut.state = "Returned"
    /\ dotGitignore.lines = <<"/">>
    /\ relPath = ""
    /\ ignoreOut.value

(***************************************************************************)
(* SpecMatch: one call of matches_gitignore_pattern per behaviour          *)
(***************************************************************************)
\* the patterns handed to the matcher: leading, trailing, both-ends and
\* interior wildcards, root-anchored ones with and without a wildcard,
\* directory-only and plain ones
PatternPool ==
    { "*.log", "**/c.txt", "*.log/", "/dist", "/dist/", "/src/lib",
      "node_modules/", "build", "temp*", "*cache*", "a*b", "*a*b*",
      "a*b*c*d", "ab*ba", "/dist*", "/src/*.rs" }

\* root-relative paths handed to the matcher
MatchPathPool ==
    { "test.log", "logs/test.log", "notalog.txt", "c.txt", "a/c.txt",
      "a/b/c.txt", "dist", "dist/main.js", "src/dist/main.js", "distant/x.js",
      "src/lib", "src/lib/x.rs", "src/library/x.rs", "node_modules",
      "node_modules/pkg.json", "node_modules.txt", "temporary.txt",
      "src/temp.txt", "build", "rebuild.txt", "src/builder/x.rs",
      "acbd", "abcd", "ad", "aba", "xa*bx", "xaxbx", "a*b", "dist*",
      "src/m.rs", "src/*.rs" }

InitMatch ==
    /\ mPath \in MatchPathPool
    /\ mPattern \in PatternPool
    /\ mIsDir \in BOOLEAN
    /\ mOut = [state |-> "NotCalled"]
    /\ TuiIdle
    /\ IgnoreIdle
    /\ ContextIdle

CallMatches ==
    /\ mOut.state = "NotCalled"
    /\ mOut' = [state |-> "Returned",
                value |-> matches_gitignore_pattern(mPath, mPattern, mIsDir)]
    /\ UNCHANGED <<mPath, mPattern, mIsDir>>
    /\ UNCHANGED tuiVars
    /\ UNCHANGED ignoreVars
    /\ UNCHANGED contextVars

NextMatch == CallMatches

SpecMatch == InitMatch /\ [][NextMatch]_vars

(***************************************************************************)
(* Claims about the matcher (checked under SpecMatch)                      *)
(***************************************************************************)
\* the pattern without its directory-only marker
CleanPattern == trim_end_matches(mPattern, "/")

\* the directory-only test does not reject the call
DirectoryOnlySatisfied == ~ends_with(mPattern, "/") \/ mIsDir

\* C25: a directory-only rule (pattern ending in '/') never matches when
\* is_dir is false; when is_dir is true it is decided as the same pattern
\* without the trailing '/'. `node_modules/` matches the directory
\* node_modules and node_modules/pkg.json with is_dir true, but not
\* node_modules.txt with is_dir false.
C25_DirectoryOnlyRule ==
    (mOut.state = "Returned" /\ ends_with(mPattern, "/")) =>
        /\ ~mIsDir => ~mOut.value
        /\ mIsDir =>
              mOut.value = matches_gitignore_pattern(
                               mPath, SubSeq(mPattern, 1, Len(mPattern) - 1), TRUE)
        /\ (mPattern = "node_modules/" /\ mIsDir
               /\ mPath \in {"node_modules", "node_modules/pkg.json"}) => mOut.value
        /\ (mPattern = "node_modules/" /\ ~mIsDir /\ mPath = "node_modules.txt")
              => ~mOut.value

\* a directory-only rule was asked about a path it names, once for a file
\* (rejected although the pattern text fits)
C25_Witness ==
    /\ mOut.state = "Returned"
    /\ mPattern = "node_modules/"
    /\ mPath = "node_modules/pkg.json"
    /\ ~mIsDir
    /\ ~mOut.value
    /\ matches_gitignore_pattern(mPath, mPattern, TRUE)

\* C26: for a pattern that starts with '*' and does not end with '*',
\* matches(path) is true iff path ends with what is left of the pattern once
\* all leading '*' are removed, at any depth; `*.log` matches test.log and
\* logs/test.log but not notalog.txt.
C26_LeadingWildcard ==
    (/\ mOut.state = "Returned"
     /\ DirectoryOnlySatisfied
     /\ starts_with(CleanPattern, "*")
     /\ ~ends_with(CleanPattern, "*")) =>
        /\ mOut.value = ends_with(mPath, trim_start_matches(CleanPattern, "*"))
        /\ (mPattern = "*.log" /\ mPath \in {"test.log", "logs/test.log"}) => mOut.value
        /\ (mPattern = "*.log" /\ mPath = "notalog.txt") => ~mOut.value

\* `**/c.txt` was matched against a path two directories deep
C26_Witness ==
    /\ mOut.state = "Returned"
    /\ mPattern = "**/c.txt"
    /\ mPath = "a/b/c.txt"
    /\ mOut.value

\* C27: for a wildcard-free root-anchored pattern `/P`, matches(path) is true
\* iff path equals P or starts with P + "/"; a path that has P only as a
\* deeper segment does not match: `/dist` matches dist/main.js but not
\* src/dist/main.js.
C27_RootAnchored ==
    (/\ mOut.state = "Returned"
     /\ DirectoryOnlySatisfied
     /\ starts_with(CleanPattern, "/")
     /\ ~contains(CleanPattern, "*")) =>
        LET P == SubSeq(CleanPattern, 2, Len(CleanPattern))
        IN  /\ mOut.value = (mPath = P \/ starts_with(mPath, P \o "/"))
            /\ (mPattern = "/dist" /\ mPath = "dist/main.js") => mOut.value
            /\ (mPattern = "/dist" /\ mPath = "src/dist/main.js") => ~mOut.value

\* `/dist` was asked about a path that has dist as a deeper segment
C27_Witness ==
    /\ mOut.state = "Returned"
    /\ mPattern = "/dist"
    /\ mPath = "src/dist/main.js"
    /\ ~mOut.value

\* the three structural tests of the wildcard-free block
StructuralMatch ==
    \/ mPath = CleanPattern
    \/ starts_with(mPath, CleanPattern \o "/")
    \/ ends_with(mPath, "/" \o CleanPattern)

\* C33: for a pattern without '*' that is not root-anchored, matches(path)
\* (directory-only condition satisfied) is true iff path contains the clean
\* pattern as a substring; each structural test implies the substring test,
\* so `build` also matches rebuild.txt and src/builder/x.rs.
C33_PlainIsSubstring ==
    (/\ mOut.state = "Returned"
     /\ DirectoryOnlySatisfied
     /\ ~contains(CleanPattern, "*")
     /\ ~starts_with(CleanPattern, "/")) =>
        /\ mOut.value = contains(mPath, CleanPattern)
        /\ StructuralMatch => contains(mPath, CleanPattern)
        /\ (mPattern = "build" /\ mPath \in {"rebuild.txt", "src/builder/x.rs"})
              => mOut.value

\* `build` was matched against a path that only has it inside a segment
C33_Witness ==
    /\ mOut.state = "Returned"
    /\ mPattern = "build"
    /\ mPath = "src/builder/x.rs"
    /\ ~StructuralMatch
    /\ mOut.value

\* the interior shape: first part at the start, last part at the end, every
\* part between them somewhere in the path
InteriorShape ==
    LET parts == split(CleanPattern, "*")
    IN  /\ starts_with(mPath, parts[1])
        /\ ends_with(mPath, parts[Len(parts)])
        /\ \A k \in 2..(Len(parts) - 1) : contains(mPath, parts[k])

\* the one wildcard shape that applies to the clean pattern, and its result
WildcardShape ==
    IF starts_with(CleanPattern, "*") /\ ends_with(CleanPattern, "*")
    THEN [shape |-> "both-ends",
          value |-> contains(mPath, trim_matches(CleanPattern, "*"))]
    ELSE IF starts_with(CleanPattern, "*")
    THEN [shape |-> "leading",
          value |-> ends_with(mPath, trim_start_matches(CleanPattern, "*"))]
    ELSE IF ends_with(CleanPattern, "*")
    THEN [shape |-> "trailing",
          value |-> starts_with(mPath, trim_end_matches(CleanPattern, "*"))]
    ELSE [shape |-> "interior", value |-> InteriorShape]

\* C34: a pattern containing '*' is decided by the first applicable shape in
\* the order both-ends (interior '*' literal), leading, trailing, interior,
\* and by nothing else: `temp*` matches temporary.txt but not src/temp.txt,
\* and a shape that fails is not followed by the root-anchored or the
\* substring test.
C34_OneWildcardShape ==
    (/\ mOut.state = "Returned"
     /\ DirectoryOnlySatisfied
     /\ contains(CleanPattern, "*")) =>
        /\ mOut.value = WildcardShape.value
        /\ (mPattern = "temp*" /\ mPath = "temporary.txt") => mOut.value
        /\ (mPattern = "temp*" /\ mPath = "src/temp.txt") => ~mOut.value
        /\ (mPattern = "*a*b*" /\ mPath = "xa*bx") => mOut.value
        /\ (mPattern = "*a*b*" /\ mPath = "xaxbx") => ~mOut.value
        /\ (mPattern = "a*b" /\ mPath = "xa*bx") => ~mOut.value
        /\ (mPattern = "/dist*" /\ mPath = "dist*") => ~mOut.value

\* the interior shape rejected a path that contains the pattern text
C34_Witness ==
    /\ mOut.state = "Returned"
    /\ mPattern = "a*b"
    /\ mPath = "xa*bx"
    /\ WildcardShape.shape = "interior"
    /\ contains(mPath, CleanPattern)
    /\ ~mOut.value

\* C35: for an interior-wildcard pattern A*B*...*Z matches(path) is true iff
\* path starts with A, ends with Z and contains every part between them
\* somewhere; neither the order of those parts nor overlaps are checked:
\* `a*b*c*d` matches acbd and `ab*ba` matches aba.
C35_InteriorWildcard ==
    (/\ mOut.state = "Returned"
     /\ DirectoryOnlySatisfied
     /\ contains(CleanPattern, "*")
     /\ ~starts_with(CleanPattern, "*")
     /\ ~ends_with(CleanPattern, "*")) =>
        /\ mOut.value = InteriorShape
        /\ (mPattern = "a*b*c*d" /\ mPath \in {"acbd", "abcd"}) => mOut.value
        /\ (mPattern = "a*b*c*d" /\ mPath = "ad") => ~mOut.value
        /\ (mPattern = "ab*ba" /\ mPath = "aba") => mOut.value

\* `a*b*c*d` was matched against a path with c ahead of b
C35_Witness ==
    /\ mOut.state = "Returned"
    /\ mPattern = "a*b*c*d"
    /\ mPath = "acbd"
    /\ mOut.value

\* C36: for every root-anchored rule, one whose pattern contains '*'
\* included, matches(path) is true iff path equals the clean pattern without
\* its leading '/' or starts with that text + "/", the '*' being a literal
\* character.
C36_AnchoringOverridesWildcard ==
    (/\ mOut.state = "Returned"
     /\ DirectoryOnlySatisfied
     /\ starts_with(CleanPattern, "/")) =>
        LET P == SubSeq(CleanPattern, 2, Len(CleanPattern))
        IN  mOut.value = (mPath = P \/ starts_with(mPath, P \o "/"))

====
